---- MODULE Spec2Model ----
(***************************************************************************)
(* Trust and credential lifecycle of the centralized authentication        *)
(* service: password login with lockout, token issuance / verification /   *)
(* revocation and provider key rotation.                                    *)
(*                                                                          *)
(* Persistent rows (users, access_tokens, provider_keys) are the shared     *)
(* state.  Every request runs in a slot; a handler that awaits the          *)
(* database between two statements is split at that await, so two requests  *)
(* interleave exactly where the event loop lets them.                       *)
(*                                                                          *)
(* Time is Date.getTime() counted in half seconds, the coarsest unit that   *)
(* still separates a millisecond timestamp from its value in whole seconds. *)
(***************************************************************************)
EXTENDS Integers, Sequences, FiniteSets, TLC

VARIABLES
    users,      \* users table: username -> row
    tokens,     \* access_tokens table: set of rows
    keys,       \* provider_keys table (committed rows): set of rows
    nextId,     \* fresh primary keys and random values: [token, key, code]
    now,        \* wall clock, half seconds
    ticks,      \* number of clock advances so far
    pc,         \* slot -> position of the request it runs
    loc,        \* slot -> locals of the request (arguments, loaded instances)
    res,        \* slot -> result returned by the finished request
    issued,     \* bearer credentials handed to clients so far
    txn,        \* slot -> open database transaction of a key rotation
    attempts,   \* history: logins that failed the password comparison
    sequelize   \* major version of the ORM the service is built with

vars == <<users, tokens, keys, nextId, now, ticks, pc, loc, res, issued, txn,
          attempts, sequelize>>

----------------------------------------------------------------------------
(* Bounds of the model *)

NProcs == 2
MaxTicks == 3
MaxTokens == 2
MaxKeys == 3
MaxCodes == 3

(* Program constants *)

LockThreshold == 5
TokenLifetime == 7200       \* one hour
UnitsPerSecond == 2

Procs == 1 .. NProcs

Null == -1

Passwords == {"pw1", "pw2"}
Admin == "admin"

ConsumerIds == {"c1", "c2", "c3"}

(* api_consumers rows; consumer administration is outside the modelled     *)
(* core, the rows are fixed: c1 open, c2 restricted to one address,        *)
(* c3 deactivated.                                                          *)
Consumers ==
    [c \in ConsumerIds |->
        CASE c = "c1" -> [is_active |-> TRUE,  allowed_ips |-> {}]
          [] c = "c2" -> [is_active |-> TRUE,  allowed_ips |-> {"10.0.0.1"}]
          [] OTHER    -> [is_active |-> FALSE, allowed_ips |-> {}]]

----------------------------------------------------------------------------
(* Crypto primitives *)

\* bcrypt hash of a password (salted; only equality of the preimage matters)
hashPassword(pw) == <<"bcrypt", pw>>

verifyPassword(pw, hash) == hash = hashPassword(pw)

\* sha256 hex digest; injective on the values the model hashes
hashData(data) == <<"sha256", data>>

\* crypto.randomBytes(32).toString('hex'): a fresh secret per call
generateRandomToken(n) == [kind |-> "raw", nonce |-> n]

----------------------------------------------------------------------------
(* Rows *)

\* an absent sub-record, an absent code
NoSub == [none |-> TRUE]
NoCode == [kind |-> "none"]

\* mfa_settings default: { enabled: false, preferred_method: null }
NoMfa ==
    [enabled |-> FALSE, preferred_method |-> "none", totp |-> NoSub,
     sms |-> NoSub, email |-> NoSub, previous_method |-> "none"]

NewUser(pw) ==
    [is_active       |-> TRUE,
     is_locked       |-> FALSE,
     failed_attempts |-> 0,
     last_login      |-> Null,
     password_hash   |-> hashPassword(pw),
     updated_by      |-> "creator",
     mfa_settings    |-> NoMfa]

NoRow == [none |-> TRUE]

NoLoc == [op |-> "none"]
NoRes == [op |-> "none"]
NoTxn == [open |-> FALSE, newVersion |-> 0, targets |-> {}, locked |-> {},
          inserted |-> {}]

\* Model.findByPk / findOne on users
FindUser(u) == IF u \in DOMAIN users THEN users[u] ELSE NoRow

\* User.findByUsername: where { username, is_active: true }
findByUsername(u) ==
    IF u \in DOMAIN users /\ users[u].is_active THEN users[u] ELSE NoRow

(* Sequelize instance.update(values): set() marks the attributes whose     *)
(* value differs from the loaded instance; save() returns without a query  *)
(* when nothing is marked, otherwise UPDATE sets every attribute named in  *)
(* values on the row (and only those).                                      *)
Changed(inst, values) == \E f \in DOMAIN values : inst[f] # values[f]

Overwrite(row, values) ==
    [f \in DOMAIN row |-> IF f \in DOMAIN values THEN values[f] ELSE row[f]]

InstanceUpdate(row, inst, values) ==
    IF Changed(inst, values) THEN Overwrite(row, values) ELSE row

----------------------------------------------------------------------------
(* Slots *)

Idle(p) == pc[p] = "idle"

\* A finished request hands its result to the caller
Finish(p, r) ==
    /\ pc' = [pc EXCEPT ![p] = "done"]
    /\ res' = [res EXCEPT ![p] = r]

Goto(p, label) ==
    /\ pc' = [pc EXCEPT ![p] = label]
    /\ res' = res

Return(p) ==
    /\ pc[p] = "done"
    /\ pc' = [pc EXCEPT ![p] = "idle"]
    /\ loc' = [loc EXCEPT ![p] = NoLoc]
    /\ res' = [res EXCEPT ![p] = NoRes]
    /\ UNCHANGED <<users, tokens, keys, nextId, now, ticks, issued, txn>>

\* Clock: time passes in steps of half a second or just under a token lifetime
Tick(d) ==
    /\ ticks < MaxTicks
    /\ now' = now + d
    /\ ticks' = ticks + 1
    /\ UNCHANGED <<users, tokens, keys, nextId, pc, loc, res, issued, txn>>

ClockSteps == {1, TokenLifetime - 1}

----------------------------------------------------------------------------
(* authenticateUser *)

AuthFail(p, code) ==
    [op |-> "auth", success |-> FALSE, code |-> code, token |-> NoRow]

AuthOk(p, jwt) ==
    [op |-> "auth", success |-> TRUE, code |-> "SUCCESS", token |-> jwt]

\* Consumer.isIpAllowed
isIpAllowed(c, ip) ==
    /\ c \in ConsumerIds
    /\ Consumers[c].is_active
    /\ \/ Consumers[c].allowed_ips = {}
       \/ ip \in Consumers[c].allowed_ips

\* ProviderKey.findActiveKey: status active, highest key_version first
ActiveKeys == {k \in keys : k.status = "active"}

AnyStoredKey == keys

findActiveKey ==
    {k \in ActiveKeys : \A j \in ActiveKeys : j.key_version <= k.key_version}

\* Requests that passed the password check and will insert a token row
Issuing == {q \in Procs : pc[q] \in {"auth_reset", "auth_key", "auth_create", "tok_create"}}

TokenBudget == nextId.token + Cardinality(Issuing) <= MaxTokens

\* if (user.is_locked) return ACCOUNT_LOCKED
LockCheckSkipped(user) == FALSE
AccountLocked(user) == user.is_locked

(* Entry of authenticateUser up to the first statement that writes:        *)
(* argument check, consumer lookup, IP allow-list, user lookup, lock       *)
(* check, password comparison and the MFA gate.  The MFA gate reads the    *)
(* identifier mfa_code, which the function never declares (only username   *)
(* and password are taken from credentials): evaluating it throws, and     *)
(* the catch block turns that into SYSTEM_ERROR.                            *)
\* a gate that lets every user through
NoMfaGate(user) == FALSE

\* if (user.mfa_settings && user.mfa_settings.enabled)
MfaGate(user) == user.mfa_settings.enabled

authenticateUser(p, c, ip, u, pw, mfa) ==
    /\ Idle(p)
    /\ LET user == findByUsername(u)
           args == [op |-> "auth", consumer |-> c, ip |-> ip, username |-> u,
                    password |-> pw, mfa_code |-> mfa, inst |-> user,
                    pre |-> user, key |-> Null, expires_at |-> Null]
       IN  /\ loc' = [loc EXCEPT ![p] = args]
           /\ IF u = "" \/ pw = ""
                 THEN Finish(p, AuthFail(p, "INVALID_CREDENTIALS"))
              ELSE IF c \notin ConsumerIds \/ ~Consumers[c].is_active
                 THEN Finish(p, AuthFail(p, "INVALID_CONSUMER"))
              ELSE IF Consumers[c].allowed_ips # {} /\ ~isIpAllowed(c, ip)
                 THEN Finish(p, AuthFail(p, "UNAUTHORIZED_IP"))
              ELSE IF user = NoRow
                 THEN Finish(p, AuthFail(p, "INVALID_USER"))
              ELSE IF AccountLocked(user)
                 THEN Finish(p, AuthFail(p, "ACCOUNT_LOCKED"))
              ELSE IF ~verifyPassword(pw, user.password_hash)
                 THEN Goto(p, "auth_incr")
              ELSE IF MfaGate(user)
                 THEN Finish(p, AuthFail(p, "SYSTEM_ERROR"))
              ELSE TokenBudget /\ Goto(p, "auth_reset")
    /\ UNCHANGED <<users, tokens, keys, nextId, now, ticks, issued, txn>>

(* user.increment("failed_attempts"): UPDATE users SET failed_attempts =   *)
(* failed_attempts + 1 WHERE id = ... RETURNING *.  On PostgreSQL the      *)
(* returned row is written back into the instance, so the instance holds   *)
(* the count after the increment.                                           *)
StaleInstance(inst, returned) == inst
AfterReturning(inst, returned) == returned

AuthIncrement(p) ==
    /\ pc[p] = "auth_incr"
    /\ LET u == loc[p].username
           row == [users[u] EXCEPT !.failed_attempts = @ + 1]
       IN  /\ users' = [users EXCEPT ![u] = row]
           /\ loc' = [loc EXCEPT ![p].inst = AfterReturning(@, row)]
    /\ Goto(p, "auth_lock")
    /\ UNCHANGED <<tokens, keys, nextId, now, ticks, issued, txn>>

\* if (user.failed_attempts + 1 >= 5) user.update({ is_locked: true })
MustLock(inst) == inst.failed_attempts + 1 >= LockThreshold

AuthLock(p) ==
    /\ pc[p] = "auth_lock"
    /\ LET u == loc[p].username
           inst == loc[p].inst
       IN  IF MustLock(inst)
             THEN /\ users' = [users EXCEPT ![u] =
                          InstanceUpdate(@, inst, [is_locked |-> TRUE])]
                  /\ loc' = loc
                  /\ Finish(p, AuthFail(p, "ACCOUNT_LOCKED"))
             ELSE /\ UNCHANGED <<users, loc>>
                  /\ Finish(p, AuthFail(p, "INVALID_PASSWORD"))
    /\ UNCHANGED <<tokens, keys, nextId, now, ticks, issued, txn>>

(* user.update({ failed_attempts: 0, last_login: new Date() }): the fresh  *)
(* timestamp always differs from the loaded one, so the UPDATE is always    *)
(* issued and sets both attributes.                                         *)
AuthReset(p) ==
    /\ pc[p] = "auth_reset"
    /\ LET u == loc[p].username
       IN  users' = [users EXCEPT ![u] =
               Overwrite(@, [failed_attempts |-> 0, last_login |-> now])]
    /\ loc' = loc
    /\ Goto(p, "auth_key")
    /\ UNCHANGED <<tokens, keys, nextId, now, ticks, issued, txn>>

\* findActiveKey, then the expiry is computed before the insert is issued
AuthFindKey(p) ==
    /\ pc[p] = "auth_key"
    /\ IF findActiveKey = {}
         THEN /\ loc' = loc
              /\ Finish(p, AuthFail(p, "CONFIGURATION_ERROR"))
         ELSE /\ \E k \in findActiveKey :
                    loc' = [loc EXCEPT ![p].key = k.id,
                                       ![p].expires_at = now + TokenLifetime]
              /\ Goto(p, "auth_create")
    /\ UNCHANGED <<users, tokens, keys, nextId, now, ticks, issued, txn>>

\* jwt.sign over { sub, consumer, token_id, iat, exp: floor(expiresAt / 1000) }
SignJwt(tokenId, u, c, expiresAt) ==
    [kind |-> "jwt", token_id |-> tokenId, sub |-> u, consumer |-> c,
     exp |-> expiresAt \div UnitsPerSecond, sig |-> "valid"]

TokenRow(id, u, c, hash, keyId, expiresAt) ==
    [id |-> id, user_id |-> u, consumer_id |-> c, token_hash |-> hash,
     provider_key_id |-> keyId, expires_at |-> expiresAt,
     is_revoked |-> FALSE, revoked_at |-> Null]

(* TokenModel.create with the hash of a fresh secret, then the JWT that    *)
(* carries the id of the new row is signed and returned; the secret        *)
(* itself is dropped.                                                       *)
AuthCreateToken(p) ==
    /\ pc[p] = "auth_create"
    /\ LET id == nextId.token
           u == loc[p].username
           c == loc[p].consumer
           tokenValue == generateRandomToken(id)
           jwt == SignJwt(id, u, c, loc[p].expires_at)
       IN  /\ tokens' = tokens \cup
                   {TokenRow(id, u, c, hashData(tokenValue), loc[p].key,
                             loc[p].expires_at)}
           /\ nextId' = [nextId EXCEPT !.token = id + 1]
           /\ issued' = issued \cup {jwt}
           /\ loc' = loc
           /\ Finish(p, AuthOk(p, jwt))
    /\ UNCHANGED <<users, keys, now, ticks, txn>>

----------------------------------------------------------------------------
(* Token.revokeAllForUser: one UPDATE over the unrevoked, unexpired rows   *)
(* of the user                                                              *)

Unrevoked(u) == {t \in tokens : t.user_id = u /\ ~t.is_revoked}

RevokeTargets(u) ==
    {t \in tokens : t.user_id = u /\ ~t.is_revoked /\ t.expires_at > now}

RevokedNow(t) == [t EXCEPT !.is_revoked = TRUE, !.revoked_at = now]

revokeAllForUser(u) ==
    (tokens \ RevokeTargets(u)) \cup {RevokedNow(t) : t \in RevokeTargets(u)}

----------------------------------------------------------------------------
(* Token service *)

TokenResult(op, ok, code, recordId) ==
    [op |-> op, success |-> ok, code |-> code, record |-> recordId]

FindToken(id) == {t \in tokens : t.id = id}

(* createToken: user must exist, be active and unlocked; consumer active;  *)
(* an active provider key must exist.  The expiry is fixed before the       *)
(* insert is issued.                                                        *)
createToken(p, u, c) ==
    /\ Idle(p)
    /\ LET user == FindUser(u)
           args == [op |-> "createToken", username |-> u, consumer |-> c,
                    key |-> Null, expires_at |-> Null]
       IN  IF user = NoRow \/ ~user.is_active \/ user.is_locked
             THEN /\ loc' = [loc EXCEPT ![p] = args]
                  /\ Finish(p, TokenResult("createToken", FALSE, "INVALID_USER", Null))
           ELSE IF c \notin ConsumerIds \/ ~Consumers[c].is_active
             THEN /\ loc' = [loc EXCEPT ![p] = args]
                  /\ Finish(p, TokenResult("createToken", FALSE, "INVALID_CONSUMER", Null))
           ELSE IF findActiveKey = {}
             THEN /\ loc' = [loc EXCEPT ![p] = args]
                  /\ Finish(p, TokenResult("createToken", FALSE, "CONFIGURATION_ERROR", Null))
           ELSE /\ TokenBudget
                /\ \E k \in findActiveKey :
                      loc' = [loc EXCEPT ![p] =
                                 [args EXCEPT !.key = k.id,
                                              !.expires_at = now + TokenLifetime]]
                /\ Goto(p, "tok_create")
    /\ UNCHANGED <<users, tokens, keys, nextId, now, ticks, issued, txn>>

\* TokenModel.create; the raw secret is returned to the caller
CreateTokenInsert(p) ==
    /\ pc[p] = "tok_create"
    /\ LET id == nextId.token
           tokenValue == generateRandomToken(id)
       IN  /\ tokens' = tokens \cup
                   {TokenRow(id, loc[p].username, loc[p].consumer,
                             hashData(tokenValue), loc[p].key, loc[p].expires_at)}
           /\ nextId' = [nextId EXCEPT !.token = id + 1]
           /\ issued' = issued \cup {tokenValue}
           /\ loc' = loc
           /\ Finish(p, TokenResult("createToken", TRUE, "SUCCESS", id))
    /\ UNCHANGED <<users, keys, now, ticks, txn>>

(* Token.revokeById, first part: load the row; a missing row throws        *)
(* (SYSTEM_ERROR at the service), an already revoked row makes revokeById   *)
(* return false, which revokeToken reports as TOKEN_NOT_FOUND.              *)
AlreadyRevokedResult == TokenResult("revokeToken", FALSE, "TOKEN_NOT_FOUND", Null)

revokeToken(p, tokenId) ==
    /\ Idle(p)
    /\ LET found == FindToken(tokenId)
       IN  IF found = {}
             THEN /\ loc' = [loc EXCEPT ![p] =
                         [op |-> "revokeToken", token_id |-> tokenId, inst |-> NoRow]]
                  /\ Finish(p, TokenResult("revokeToken", FALSE, "SYSTEM_ERROR", Null))
           ELSE \E t \in found :
                  /\ loc' = [loc EXCEPT ![p] =
                         [op |-> "revokeToken", token_id |-> tokenId, inst |-> t]]
                  /\ IF t.is_revoked
                        THEN Finish(p, AlreadyRevokedResult)
                        ELSE Goto(p, "rev_write")
    /\ UNCHANGED <<users, tokens, keys, nextId, now, ticks, issued, txn>>

\* Token.revokeById, second part: token.update({ is_revoked, revoked_at })
RevokeWrite(p) ==
    /\ pc[p] = "rev_write"
    /\ tokens' = {IF t.id = loc[p].token_id
                    THEN InstanceUpdate(t, loc[p].inst,
                             [is_revoked |-> TRUE, revoked_at |-> now])
                    ELSE t : t \in tokens}
    /\ loc' = loc
    /\ Finish(p, TokenResult("revokeToken", TRUE, "SUCCESS", loc[p].token_id))
    /\ UNCHANGED <<users, keys, nextId, now, ticks, issued, txn>>

\* revokeAllTokensForUser / revokeAllUserTokens
revokeAllTokensForUser(p, u) ==
    /\ Idle(p)
    /\ loc' = [loc EXCEPT ![p] =
           [op |-> "revokeAll", username |-> u,
            count |-> Cardinality(RevokeTargets(u)),
            held |-> {t.id : t \in {r \in tokens : r.user_id = u}}]]
    /\ tokens' = revokeAllForUser(u)
    /\ Finish(p, TokenResult("revokeAll", TRUE, "SUCCESS", Null))
    /\ UNCHANGED <<users, keys, nextId, now, ticks, issued, txn>>

----------------------------------------------------------------------------
(* Token validation *)

\* jwt.decode: the payload of a well-formed JWT, null for anything else
IsJwt(token) == token.kind = "jwt"

\* jwt.verify: signature under JWT_SECRET and the exp claim, in whole seconds
JwtVerifies(token) ==
    /\ token.sig = "valid"
    /\ now \div UnitsPerSecond < token.exp

\* new Date() > tokenRecord.expires_at
RecordExpired(t) == now > t.expires_at

VerifyArgs(op, token, c) ==
    [op |-> op, presented |-> token, consumer |-> c, at |-> now]

\* code and located record of verifyToken(token, consumerId)
VerifyOutcome(token, c) ==
    IF ~IsJwt(token) THEN <<"INVALID_TOKEN", Null>>
    ELSE IF ~JwtVerifies(token) THEN <<"INVALID_SIGNATURE", Null>>
    ELSE IF FindToken(token.token_id) = {} THEN <<"TOKEN_NOT_FOUND", Null>>
    ELSE LET t == CHOOSE r \in FindToken(token.token_id) : TRUE
             user == FindUser(t.user_id)
         IN  IF t.is_revoked THEN <<"TOKEN_REVOKED", t.id>>
             ELSE IF RecordExpired(t) THEN <<"TOKEN_EXPIRED", t.id>>
             ELSE IF t.consumer_id # c THEN <<"CONSUMER_MISMATCH", t.id>>
             ELSE IF user = NoRow \/ ~user.is_active
                  THEN <<"USER_UNAVAILABLE", t.id>>
             ELSE <<"SUCCESS", t.id>>

verifyToken(p, token, c) ==
    /\ Idle(p)
    /\ loc' = [loc EXCEPT ![p] = VerifyArgs("verifyToken", token, c)]
    /\ LET out == VerifyOutcome(token, c)
       IN  Finish(p, TokenResult("verifyToken", out[1] = "SUCCESS", out[1], out[2]))
    /\ UNCHANGED <<users, tokens, keys, nextId, now, ticks, issued, txn>>

\* Token.findByTokenHash: hash matches, not revoked, expires_at > now
findByTokenHash(hash) ==
    {t \in tokens : t.token_hash = hash /\ ~t.is_revoked /\ t.expires_at > now}

(* validateTokenFromHeader: header is "<scheme> <value>"; the value is     *)
(* hashed and the row looked up by that hash.                               *)
HeaderOutcome(header) ==
    IF header.scheme = "" THEN <<"TOKEN_MISSING", Null>>
    ELSE IF header.scheme # "Bearer" THEN <<"INVALID_TOKEN_FORMAT", Null>>
    ELSE IF findByTokenHash(hashData(header.value)) = {}
         THEN <<"TOKEN_NOT_FOUND", Null>>
    ELSE LET t == CHOOSE r \in findByTokenHash(hashData(header.value)) : TRUE
             user == FindUser(t.user_id)
         IN  IF user = NoRow \/ ~user.is_active THEN <<"USER_INACTIVE", t.id>>
             ELSE <<"SUCCESS", t.id>>

validateTokenFromHeader(p, header) ==
    /\ Idle(p)
    /\ loc' = [loc EXCEPT ![p] =
           [op |-> "validateTokenFromHeader", presented |-> header.value,
            scheme |-> header.scheme, at |-> now]]
    /\ LET out == HeaderOutcome(header)
       IN  Finish(p, TokenResult("validateTokenFromHeader",
                                 out[1] = "SUCCESS", out[1], out[2]))
    /\ UNCHANGED <<users, tokens, keys, nextId, now, ticks, issued, txn>>

----------------------------------------------------------------------------
(* User administration *)

Tri == {"undefined", "true", "false"}

Result(op, ok, code) == [op |-> op, success |-> ok, code |-> code]

Merge(f, g) ==
    [x \in (DOMAIN f) \cup (DOMAIN g) |-> IF x \in DOMAIN g THEN g[x] ELSE f[x]]

NoValues == [x \in {} |-> TRUE]

(* updateUser, first part: load the user inside the transaction and, when  *)
(* the request deactivates or locks the account, revoke its tokens (the     *)
(* revocation does not run in the transaction and is visible at once).      *)
(* email and roles are outside the modelled core.                           *)
updateUser(p, u, is_active, is_locked) ==
    /\ Idle(p)
    /\ LET user == FindUser(u)
       IN  /\ loc' = [loc EXCEPT ![p] =
                   [op |-> "updateUser", username |-> u, inst |-> user,
                    is_active |-> is_active, is_locked |-> is_locked]]
           /\ IF user = NoRow
                 THEN /\ Finish(p, Result("updateUser", FALSE, "USER_NOT_FOUND"))
                      /\ tokens' = tokens
                 ELSE /\ Goto(p, "upd_write")
                      /\ tokens' = IF is_active = "false" \/ is_locked = "true"
                                     THEN revokeAllForUser(u) ELSE tokens
    /\ UNCHANGED <<users, keys, nextId, now, ticks, issued, txn>>

\* updateData assembled by updateUser; unlocking also clears the counter
UnlockKeepsCount == [is_locked |-> FALSE]
UnlockValues == [is_locked |-> FALSE, failed_attempts |-> 0]

UpdateData(is_active, is_locked) ==
    Merge(Merge([updated_by |-> Admin],
                IF is_active = "undefined" THEN NoValues
                ELSE [is_active |-> (is_active = "true")]),
          IF is_locked = "undefined" THEN NoValues
          ELSE IF is_locked = "true" THEN [is_locked |-> TRUE]
          ELSE UnlockValues)

\* updateUser, second part: user.update(updateData) and commit
UpdateUserWrite(p) ==
    /\ pc[p] = "upd_write"
    /\ LET u == loc[p].username
       IN  users' = [users EXCEPT ![u] =
               InstanceUpdate(@, loc[p].inst,
                   UpdateData(loc[p].is_active, loc[p].is_locked))]
    /\ loc' = loc
    /\ Finish(p, Result("updateUser", TRUE, "SUCCESS"))
    /\ UNCHANGED <<tokens, keys, nextId, now, ticks, issued, txn>>

(* changePassword: the current password is checked against the loaded     *)
(* hash, then the new hash is stored.  A bcrypt hash carries a fresh salt,  *)
(* so the stored hash always changes and the UPDATE is always issued.       *)
ChangePasswordValues(newPw) ==
    [password_hash |-> hashPassword(newPw), updated_by |-> Admin]

changePassword(p, u, currentPassword, newPassword) ==
    /\ Idle(p)
    /\ LET user == FindUser(u)
       IN  /\ loc' = [loc EXCEPT ![p] = [op |-> "changePassword", username |-> u]]
           /\ IF currentPassword = "" \/ newPassword = ""
                 THEN /\ Finish(p, Result("changePassword", FALSE, "INVALID_INPUT"))
                      /\ users' = users
              ELSE IF user = NoRow
                 THEN /\ Finish(p, Result("changePassword", FALSE, "USER_NOT_FOUND"))
                      /\ users' = users
              ELSE IF ~verifyPassword(currentPassword, user.password_hash)
                 THEN /\ Finish(p, Result("changePassword", FALSE, "INVALID_PASSWORD"))
                      /\ users' = users
              ELSE /\ Finish(p, Result("changePassword", TRUE, "SUCCESS"))
                   /\ users' = [users EXCEPT ![u] =
                          Overwrite(@, ChangePasswordValues(newPassword))]
    /\ UNCHANGED <<tokens, keys, nextId, now, ticks, issued, txn>>

(* resetPassword (administrator): stores the new hash and clears the lock  *)
(* and the counter in the same UPDATE, then revokes the user's tokens.      *)
ResetPasswordValues(newPw) ==
    [password_hash |-> hashPassword(newPw), updated_by |-> Admin,
     failed_attempts |-> 0, is_locked |-> FALSE]

resetPassword(p, u, newPassword) ==
    /\ Idle(p)
    /\ LET user == FindUser(u)
       IN  /\ loc' = [loc EXCEPT ![p] = [op |-> "resetPassword", username |-> u]]
           /\ IF newPassword = ""
                 THEN /\ Finish(p, Result("resetPassword", FALSE, "INVALID_INPUT"))
                      /\ users' = users
              ELSE IF user = NoRow
                 THEN /\ Finish(p, Result("resetPassword", FALSE, "USER_NOT_FOUND"))
                      /\ users' = users
              ELSE /\ Goto(p, "rst_revoke")
                   /\ users' = [users EXCEPT ![u] =
                          Overwrite(@, ResetPasswordValues(newPassword))]
    /\ UNCHANGED <<tokens, keys, nextId, now, ticks, issued, txn>>

ResetPasswordRevoke(p) ==
    /\ pc[p] = "rst_revoke"
    /\ tokens' = revokeAllForUser(loc[p].username)
    /\ loc' = loc
    /\ Finish(p, Result("resetPassword", TRUE, "SUCCESS"))
    /\ UNCHANGED <<users, keys, nextId, now, ticks, issued, txn>>

----------------------------------------------------------------------------
(* Multi-factor settings.  mfa_settings is one JSONB column.  Every        *)
(* handler loads the row with findByPk, edits the object it was given and   *)
(* hands that same object to user.update({ mfa_settings }); disableMFA      *)
(* alone builds a new object.  Each handler is split at the await of its    *)
(* update: the first step reads and decides, the second writes.              *)

NumBackupCodes == 10
TotpStep == 60           \* 30 seconds
NoDrift == 1 - 1
TotpWindow == 1

OtpMethods == {"sms", "email"}

\* minutes of validity, in half seconds
OtpLifetime(m) == IF m = "sms" THEN 5 * 120 ELSE 15 * 120
VerificationLifetime(m) == IF m = "sms" THEN 10 * 120 ELSE 30 * 120

(* Secrets, numeric codes and backup codes are random: each generation     *)
(* yields a value never seen before, named here by a serial number.         *)
CodeBudget == nextId.code <= MaxCodes

\* generateBackupCode, ten per enrolment
BackupCodes(serial) ==
    {[kind |-> "backup", serial |-> serial, n |-> n] : n \in 1..NumBackupCodes}

\* generateNumericCode(6)
NumericCode(serial) == [kind |-> "numeric", serial |-> serial]

\* the code an authenticator shows for a secret in a time step
Totp(secret, step) == [kind |-> "totp", secret |-> secret, step |-> step]

\* a check that would pass whatever is submitted
AcceptAny(secret, token) == TRUE

\* speakeasy.totp.verify({ secret, token, window: 1 })
totpVerify(secret, token) ==
    /\ token.kind = "totp"
    /\ token.secret = secret
    /\ token.step >= now \div TotpStep - TotpWindow
    /\ token.step <= now \div TotpStep + TotpWindow

TotpSub(secret) == [secret |-> secret, verified |-> FALSE, backup_codes |-> {}]

OtpSub(code, expiresAt) ==
    [verified |-> FALSE, verification_code |-> code,
     verification_code_expires_at |-> expiresAt, backup_codes |-> {},
     current_otp |-> NoCode, otp_expires_at |-> Null]

MethodCode(m, suffix) ==
    (IF m = "sms" THEN "SMS_MFA_" ELSE "EMAIL_MFA_") \o suffix

(* locals of a handler: the submitted code, the settings object as loaded, *)
(* the object after the handler's edits, whether that is a new object, and  *)
(* the result to return                                                      *)
MfaCall(op, u, submitted, read, draft, fresh, ok, code) ==
    [op |-> op, username |-> u, submitted |-> submitted, read |-> read,
     draft |-> draft, fresh |-> fresh, result |-> Result(op, ok, code)]

\* return without writing
MfaReturn(p, op, u, submitted, read, ok, code) ==
    /\ loc' = [loc EXCEPT ![p] =
                  MfaCall(op, u, submitted, read, read, FALSE, ok, code)]
    /\ Finish(p, Result(op, ok, code))
    /\ nextId' = nextId

(* await user.update({ mfa_settings: draft }), then return the result;     *)
(* generated tells whether the edits drew a random value                    *)
MfaSave(p, op, u, submitted, read, draft, fresh, generated, ok, code) ==
    /\ generated => CodeBudget
    /\ loc' = [loc EXCEPT ![p] =
                  MfaCall(op, u, submitted, read, draft, fresh, ok, code)]
    /\ Goto(p, "mfa_write")
    /\ nextId' = IF generated THEN [nextId EXCEPT !.code = @ + 1] ELSE nextId

(* user.update({ mfa_settings }): Sequelize 6 compares the value with the  *)
(* one the instance holds (_.isEqual); the edited object is the one the     *)
(* instance holds, so nothing is marked changed and no UPDATE is sent.      *)
(* Sequelize 5 marks every object value as changed and writes the column.   *)
Saved(stored, draft, fresh) ==
    IF fresh \/ sequelize = 5 THEN draft ELSE stored

MfaWrite(p) ==
    /\ pc[p] = "mfa_write"
    /\ users' = [users EXCEPT ![loc[p].username].mfa_settings =
                     Saved(@, loc[p].draft, loc[p].fresh)]
    /\ loc' = loc
    /\ Finish(p, loc[p].result)
    /\ UNCHANGED <<tokens, keys, nextId, now, ticks, issued, txn>>

\* the flags alone, without marking the method verified
EnableUnverified(s, m) ==
    [s EXCEPT !.enabled = TRUE, !.preferred_method = m]

\* what verify-and-enable of method m sets on the settings it has read
EnableMethod(s, m) ==
    [s EXCEPT !.enabled = TRUE, !.preferred_method = m, ![m].verified = TRUE]

\* the settings object of a loaded row
Settings(user) == IF user = NoRow THEN NoRow ELSE user.mfa_settings

setupTOTP(p, u) ==
    /\ Idle(p)
    /\ LET user == FindUser(u)
           s == Settings(user)
           op == "setupTOTP"
       IN  IF user = NoRow
             THEN MfaReturn(p, op, u, NoCode, s, FALSE, "USER_NOT_FOUND")
           ELSE IF s.enabled
             THEN MfaReturn(p, op, u, NoCode, s, FALSE, "MFA_ALREADY_ENABLED")
           ELSE MfaSave(p, op, u, NoCode, s,
                        [s EXCEPT !.totp = TotpSub(nextId.code)],
                        FALSE, TRUE, TRUE, "SUCCESS")
    /\ UNCHANGED <<users, tokens, keys, now, ticks, issued, txn>>

verifyAndEnableTOTP(p, u, token) ==
    /\ Idle(p)
    /\ LET user == FindUser(u)
           s == Settings(user)
           op == "verifyAndEnableTOTP"
       IN  IF user = NoRow
             THEN MfaReturn(p, op, u, token, s, FALSE, "USER_NOT_FOUND")
           ELSE IF s.totp = NoSub
             THEN MfaReturn(p, op, u, token, s, FALSE, "TOTP_NOT_SETUP")
           ELSE IF s.totp.verified /\ s.enabled
             THEN MfaReturn(p, op, u, token, s, FALSE, "TOTP_ALREADY_VERIFIED")
           ELSE IF ~totpVerify(s.totp.secret, token)
             THEN MfaReturn(p, op, u, token, s, FALSE, "INVALID_TOKEN")
           ELSE MfaSave(p, op, u, token, s,
                        [EnableMethod(s, "totp") EXCEPT
                            !.totp.backup_codes = BackupCodes(nextId.code)],
                        FALSE, TRUE, TRUE, "SUCCESS")
    /\ UNCHANGED <<users, tokens, keys, now, ticks, issued, txn>>

\* the list as it was, the accepted code still on it
AllCodes(codes, code) == codes

\* backup_codes.filter(code => code !== token)
Unused(codes, code) == codes \ {code}

(* verifyTOTP, the verifier of the totp method at login: a stored backup   *)
(* code is accepted and taken off the list, otherwise the token is checked  *)
(* against the secret.                                                      *)
verifyTOTP(p, u, token) ==
    /\ Idle(p)
    /\ LET user == FindUser(u)
           s == Settings(user)
           op == "verifyTOTP"
       IN  IF user = NoRow
             THEN MfaReturn(p, op, u, token, s, FALSE, "USER_NOT_FOUND")
           ELSE IF ~s.enabled \/ s.totp = NoSub \/ ~s.totp.verified
             THEN MfaReturn(p, op, u, token, s, FALSE, "TOTP_NOT_ENABLED")
           ELSE IF token \in s.totp.backup_codes
             THEN MfaSave(p, op, u, token, s,
                          [s EXCEPT !.totp.backup_codes = Unused(@, token)],
                          FALSE, FALSE, TRUE, "SUCCESS")
           ELSE IF ~totpVerify(s.totp.secret, token)
             THEN MfaReturn(p, op, u, token, s, FALSE, "INVALID_TOKEN")
           ELSE MfaReturn(p, op, u, token, s, TRUE, "SUCCESS")
    /\ UNCHANGED <<users, tokens, keys, now, ticks, issued, txn>>

\* the flags cleared, the method sub-records left where they are
FlagsCleared(s) ==
    [s EXCEPT !.enabled = FALSE, !.preferred_method = "none",
              !.previous_method = s.preferred_method]

\* resetSettings: a new object without any method sub-record
ResetSettings(s) == [NoMfa EXCEPT !.previous_method = s.preferred_method]

disableMFA(p, u, currentPassword) ==
    /\ Idle(p)
    /\ LET user == FindUser(u)
           s == Settings(user)
           op == "disableMFA"
       IN  IF user = NoRow
             THEN MfaReturn(p, op, u, currentPassword, s, FALSE, "USER_NOT_FOUND")
           ELSE IF ~s.enabled
             THEN MfaReturn(p, op, u, currentPassword, s, FALSE, "MFA_NOT_ENABLED")
           ELSE IF ~verifyPassword(currentPassword, user.password_hash)
             THEN MfaReturn(p, op, u, currentPassword, s, FALSE, "INVALID_PASSWORD")
           ELSE MfaSave(p, op, u, currentPassword, s, ResetSettings(s),
                        TRUE, FALSE, TRUE, "SUCCESS")
    /\ UNCHANGED <<users, tokens, keys, now, ticks, issued, txn>>

\* setupSMSMFA / setupEmailMFA: a verification code is stored and sent
setupOtpMFA(p, u, m, addressValid) ==
    /\ Idle(p)
    /\ LET user == FindUser(u)
           s == Settings(user)
           op == IF m = "sms" THEN "setupSMSMFA" ELSE "setupEmailMFA"
       IN  IF user = NoRow
             THEN MfaReturn(p, op, u, NoCode, s, FALSE, "USER_NOT_FOUND")
           ELSE IF ~addressValid
             THEN MfaReturn(p, op, u, NoCode, s, FALSE,
                      IF m = "sms" THEN "INVALID_PHONE_NUMBER" ELSE "INVALID_EMAIL")
           ELSE IF s.enabled
             THEN MfaReturn(p, op, u, NoCode, s, FALSE, "MFA_ALREADY_ENABLED")
           ELSE MfaSave(p, op, u, NoCode, s,
                        [s EXCEPT ![m] = OtpSub(NumericCode(nextId.code),
                                                now + VerificationLifetime(m))],
                        FALSE, TRUE, TRUE, "SUCCESS")
    /\ UNCHANGED <<users, tokens, keys, now, ticks, issued, txn>>

\* verifyAndEnableSMSMFA / verifyAndEnableEmailMFA
verifyAndEnableOtpMFA(p, u, m, code) ==
    /\ Idle(p)
    /\ LET user == FindUser(u)
           s == Settings(user)
           op == IF m = "sms" THEN "verifyAndEnableSMSMFA"
                 ELSE "verifyAndEnableEmailMFA"
       IN  IF user = NoRow
             THEN MfaReturn(p, op, u, code, s, FALSE, "USER_NOT_FOUND")
           ELSE IF s[m] = NoSub \/ s[m].verification_code = NoCode
             THEN MfaReturn(p, op, u, code, s, FALSE, MethodCode(m, "NOT_SETUP"))
           ELSE IF now > s[m].verification_code_expires_at
             THEN MfaReturn(p, op, u, code, s, FALSE, "VERIFICATION_CODE_EXPIRED")
           ELSE IF code # s[m].verification_code
             THEN MfaReturn(p, op, u, code, s, FALSE, "INVALID_VERIFICATION_CODE")
           ELSE MfaSave(p, op, u, code, s,
                        [EnableMethod(s, m) EXCEPT
                            ![m].backup_codes = BackupCodes(nextId.code),
                            ![m].verification_code = NoCode,
                            ![m].verification_code_expires_at = Null],
                        FALSE, TRUE, TRUE, "SUCCESS")
    /\ UNCHANGED <<users, tokens, keys, now, ticks, issued, txn>>

\* the guard shared by the login-time handlers of the sms and email methods
OtpMethodEnabled(s, m) ==
    s.enabled /\ s.preferred_method = m /\ s[m].verified

\* generateAndSendSMSOTP / generateAndSendEmailOTP
generateAndSendOTP(p, u, m) ==
    /\ Idle(p)
    /\ LET user == FindUser(u)
           s == Settings(user)
           op == IF m = "sms" THEN "generateAndSendSMSOTP"
                 ELSE "generateAndSendEmailOTP"
       IN  IF user = NoRow
             THEN MfaReturn(p, op, u, NoCode, s, FALSE, "USER_NOT_FOUND")
           ELSE IF s.enabled /\ s.preferred_method = m /\ s[m] = NoSub
             THEN MfaReturn(p, op, u, NoCode, s, FALSE, "SYSTEM_ERROR")
           ELSE IF ~OtpMethodEnabled(s, m)
             THEN MfaReturn(p, op, u, NoCode, s, FALSE, MethodCode(m, "NOT_ENABLED"))
           ELSE MfaSave(p, op, u, NoCode, s,
                        [s EXCEPT ![m].current_otp = NumericCode(nextId.code),
                                  ![m].otp_expires_at = now + OtpLifetime(m)],
                        FALSE, TRUE, TRUE, "SUCCESS")
    /\ UNCHANGED <<users, tokens, keys, now, ticks, issued, txn>>

\* the settings with the one-time code left in place
OtpKept(s, m) == s

\* delete mfaSettings[m].current_otp; delete mfaSettings[m].otp_expires_at
OtpCleared(s, m) ==
    [s EXCEPT ![m].current_otp = NoCode, ![m].otp_expires_at = Null]

(* verifySMSOTP / verifyEmailOTP, the verifiers of the sms and email       *)
(* methods at login.                                                        *)
verifyOTP(p, u, m, code) ==
    /\ Idle(p)
    /\ LET user == FindUser(u)
           s == Settings(user)
           op == IF m = "sms" THEN "verifySMSOTP" ELSE "verifyEmailOTP"
       IN  IF user = NoRow
             THEN MfaReturn(p, op, u, code, s, FALSE, "USER_NOT_FOUND")
           ELSE IF s.enabled /\ s.preferred_method = m /\ s[m] = NoSub
             THEN MfaReturn(p, op, u, code, s, FALSE, "SYSTEM_ERROR")
           ELSE IF ~OtpMethodEnabled(s, m)
             THEN MfaReturn(p, op, u, code, s, FALSE, MethodCode(m, "NOT_ENABLED"))
           ELSE IF s[m].current_otp = NoCode \/ s[m].otp_expires_at = Null
             THEN MfaReturn(p, op, u, code, s, FALSE, "OTP_NOT_REQUESTED")
           ELSE IF now > s[m].otp_expires_at
             THEN MfaSave(p, op, u, code, s, OtpCleared(s, m),
                          FALSE, FALSE, FALSE, "OTP_EXPIRED")
           ELSE IF code # s[m].current_otp
             THEN MfaReturn(p, op, u, code, s, FALSE, "INVALID_OTP")
           ELSE MfaSave(p, op, u, code, s, OtpCleared(s, m),
                        FALSE, FALSE, TRUE, "SUCCESS")
    /\ UNCHANGED <<users, tokens, keys, now, ticks, issued, txn>>

----------------------------------------------------------------------------
(* Provider keys.  keys holds the committed rows; a rotation runs in a     *)
(* database transaction (PostgreSQL, default isolation READ COMMITTED)      *)
(* whose uncommitted writes and row locks are kept in txn.                  *)

Key(id, version, status, validUntil) ==
    [id |-> id, key_version |-> version, status |-> status,
     valid_until |-> validUntil]

KeyValidity == 15552000      \* 90 days
WarningWindow == 1728000     \* 10 days

RotationLabels == {"rot_begin", "rot_update", "rot_wait", "rot_insert", "rot_commit"}

\* rows that the rotations in flight will still insert
PendingInserts ==
    Cardinality({x \in Procs \X (1..MaxKeys) :
                   /\ pc[x[1]] \in RotationLabels
                   /\ x[2] + (IF pc[x[1]] = "rot_commit" THEN 1 ELSE 0)
                         <= loc[x[1]].todo})

KeyBudget(n) == (nextId.key - 1) + PendingInserts + n <= MaxKeys

\* rotateProviderKey: a key pair is generated, then ProviderKey.rotateKey
rotateProviderKey(p) ==
    /\ Idle(p)
    /\ KeyBudget(1)
    /\ loc' = [loc EXCEPT ![p] =
           [op |-> "rotateProviderKey", todo |-> 1, rotated |-> 0]]
    /\ Goto(p, "rot_begin")
    /\ UNCHANGED <<users, tokens, keys, nextId, now, ticks, issued, txn>>

MaxVersion ==
    IF keys = {} THEN 0
    ELSE (CHOOSE k \in keys : \A j \in keys : j.key_version <= k.key_version).key_version

\* sequelize.transaction(); this.max("key_version"); newVersion = max + 1
RotateBegin(p) ==
    /\ pc[p] = "rot_begin"
    /\ txn' = [txn EXCEPT ![p] =
           [NoTxn EXCEPT !.open = TRUE, !.newVersion = MaxVersion + 1]]
    /\ loc' = loc
    /\ Goto(p, "rot_update")
    /\ UNCHANGED <<users, tokens, keys, nextId, now, ticks, issued>>

\* rows locked by the uncommitted UPDATE of another transaction
LockedByOthers(p) ==
    UNION {txn[q].locked : q \in Procs \ {p}}

(* UPDATE ... SET status = 'inactive' WHERE status = 'active': the         *)
(* statement takes its snapshot of the committed rows when it starts ...    *)
RotateUpdate(p) ==
    /\ pc[p] = "rot_update"
    /\ txn' = [txn EXCEPT ![p].targets = {k.id : k \in ActiveKeys}]
    /\ loc' = loc
    /\ Goto(p, "rot_wait")
    /\ UNCHANGED <<users, tokens, keys, nextId, now, ticks, issued>>

\* an UPDATE that would write every row of its snapshot without re-checking
WholeSnapshot(targets) == targets

(* ... waits for the row locks held by other transactions, and then        *)
(* updates the rows of its snapshot that still match the WHERE clause.      *)
StillActive(targets) == {k.id : k \in {j \in ActiveKeys : j.id \in targets}}

RotateUpdateFinish(p) ==
    /\ pc[p] = "rot_wait"
    /\ txn[p].targets \cap LockedByOthers(p) = {}
    /\ txn' = [txn EXCEPT ![p].locked = StillActive(txn[p].targets)]
    /\ loc' = loc
    /\ Goto(p, "rot_insert")
    /\ UNCHANGED <<users, tokens, keys, nextId, now, ticks, issued>>

\* this.create({ key_version: newVersion, status: "active", valid_until })
RotateInsert(p) ==
    /\ pc[p] = "rot_insert"
    /\ txn' = [txn EXCEPT ![p].inserted =
           {Key(nextId.key, txn[p].newVersion, "active", now + KeyValidity)}]
    /\ nextId' = [nextId EXCEPT !.key = @ + 1]
    /\ loc' = loc
    /\ Goto(p, "rot_commit")
    /\ UNCHANGED <<users, tokens, keys, now, ticks, issued>>

\* the rows as the transaction of p has written them so far
Written(p) ==
    {IF k.id \in txn[p].locked THEN [k EXCEPT !.status = "inactive"] ELSE k :
       k \in keys} \cup txn[p].inserted

(* transaction.commit(): the writes become visible and the locks are       *)
(* released; checkAndRotateExpiringKeys then goes on to its next key.       *)
RotateCommit(p) ==
    /\ pc[p] = "rot_commit"
    /\ keys' = Written(p)
    /\ txn' = [txn EXCEPT ![p] = NoTxn]
    /\ loc' = [loc EXCEPT ![p].todo = @ - 1, ![p].rotated = @ + 1]
    /\ IF loc[p].todo > 1
          THEN Goto(p, "rot_begin")
          ELSE Finish(p, Result(loc[p].op, TRUE, "SUCCESS"))
    /\ UNCHANGED <<users, tokens, nextId, now, ticks, issued>>

\* transaction.rollback(): none of the writes reaches the committed rows
Rollback(p) == keys

(* A statement of rotateKey (or the connection) fails: the catch block     *)
(* rolls the transaction back and rethrows, rotateProviderKey answers       *)
(* SYSTEM_ERROR; the id drawn from the sequence by a rolled-back INSERT is  *)
(* not given back.  checkAndRotateExpiringKeys counts only successful       *)
(* rotations and goes on to its next key.                                    *)
RotateFail(p) ==
    /\ pc[p] \in RotationLabels
    /\ keys' = Rollback(p)
    /\ txn' = [txn EXCEPT ![p] = NoTxn]
    /\ loc' = [loc EXCEPT ![p].todo = @ - 1]
    /\ IF loc[p].todo > 1
          THEN Goto(p, "rot_begin")
          ELSE IF loc[p].op = "rotateProviderKey"
                 THEN Finish(p, Result(loc[p].op, FALSE, "SYSTEM_ERROR"))
                 ELSE Finish(p, Result(loc[p].op, TRUE, "SUCCESS"))
    /\ UNCHANGED <<users, tokens, nextId, now, ticks, issued>>

\* revokeProviderKey / ProviderKey.revokeKey, first part: findByPk
revokeProviderKey(p, keyId) ==
    /\ Idle(p)
    /\ LET found == {k \in keys : k.id = keyId}
       IN  IF found = {}
             THEN /\ loc' = [loc EXCEPT ![p] =
                         [op |-> "revokeProviderKey", key_id |-> keyId, inst |-> NoRow]]
                  /\ Finish(p, Result("revokeProviderKey", FALSE, "SYSTEM_ERROR"))
             ELSE /\ \E k \in found :
                        loc' = [loc EXCEPT ![p] =
                          [op |-> "revokeProviderKey", key_id |-> keyId, inst |-> k]]
                  /\ Goto(p, "key_write")
    /\ UNCHANGED <<users, tokens, keys, nextId, now, ticks, issued, txn>>

(* second part: key.update({ status: "revoked", updated_at: new Date() }), *)
(* always issued because of the fresh timestamp; it waits for row locks.    *)
RevokeKeyWrite(p) ==
    /\ pc[p] = "key_write"
    /\ loc[p].key_id \notin LockedByOthers(p)
    /\ keys' = {IF k.id = loc[p].key_id
                  THEN Overwrite(k, [status |-> "revoked"])
                  ELSE k : k \in keys}
    /\ loc' = loc
    /\ Finish(p, Result("revokeProviderKey", TRUE, "SUCCESS"))
    /\ UNCHANGED <<users, tokens, nextId, now, ticks, issued, txn>>

\* active keys whose valid_until lies within the next 10 days
ExpiringKeys ==
    {k \in ActiveKeys : k.valid_until < now + WarningWindow /\ k.valid_until > now}

\* checkAndRotateExpiringKeys: one rotateProviderKey per expiring key
checkAndRotateExpiringKeys(p) ==
    /\ Idle(p)
    /\ LET n == Cardinality(ExpiringKeys)
       IN  /\ loc' = [loc EXCEPT ![p] =
                   [op |-> "checkAndRotateExpiringKeys", todo |-> n, rotated |-> 0]]
           /\ IF n = 0
                 THEN Finish(p, Result("checkAndRotateExpiringKeys", TRUE, "SUCCESS"))
                 ELSE KeyBudget(n) /\ Goto(p, "rot_begin")
    /\ UNCHANGED <<users, tokens, keys, nextId, now, ticks, issued, txn>>

----------------------------------------------------------------------------
(* Initial database: one enrolled user, one active provider key *)

SequelizeMajors == {5, 6}

Start(rows) ==
    /\ users = rows
    /\ tokens = {}
    /\ keys = {Key(1, 1, "active", KeyValidity)}
    /\ nextId = [token |-> 1, key |-> 2, code |-> 1]
    /\ now = 0
    /\ ticks = 0
    /\ pc = [p \in Procs |-> "idle"]
    /\ loc = [p \in Procs |-> NoLoc]
    /\ res = [p \in Procs |-> NoRes]
    /\ issued = {}
    /\ txn = [p \in Procs |-> NoTxn]
    /\ attempts = 0
    /\ sequelize \in SequelizeMajors

Init == Start([u \in {"alice"} |-> NewUser("pw1")])

(* the settings verifyAndEnableTOTP / verifyAndEnableSMSMFA /                *)
(* verifyAndEnableEmailMFA store for method m, with the secret and backup   *)
(* codes of an earlier generation (serial 0)                                 *)
MfaMethods == {"totp"} \cup OtpMethods

EnrolledSettings(m) ==
    IF m = "totp"
      THEN [NoMfa EXCEPT !.enabled = TRUE, !.preferred_method = m,
                         !.totp = [TotpSub(0) EXCEPT !.verified = TRUE,
                                                     !.backup_codes = BackupCodes(0)]]
      ELSE [NoMfa EXCEPT !.enabled = TRUE, !.preferred_method = m,
                         ![m] = [OtpSub(NoCode, Null) EXCEPT
                                    !.verified = TRUE,
                                    !.backup_codes = BackupCodes(0)]]

(* a database in which alice has enrolled one of the methods; only a build *)
(* whose updates of mfa_settings are saved can have written such a row     *)
InitEnrolled ==
    /\ \E m \in MfaMethods :
          Start([u \in {"alice"} |->
                   [NewUser("pw1") EXCEPT !.mfa_settings = EnrolledSettings(m)]])
    /\ sequelize = 5

InitEnrol == Init \/ InitEnrolled

----------------------------------------------------------------------------
(* Requests handled one at a time: a request is only accepted when no      *)
(* other is in flight.                                                      *)

LoginNames == {"alice", "bob", ""}
LoginPasswords == Passwords \cup {""}
MfaCodes == {"", "123456"}

\* an open consumer, a restricted one called from elsewhere, an inactive one
LoginOrigins ==
    {<<"c1", "10.0.0.1">>, <<"c2", "10.0.0.2">>, <<"c3", "10.0.0.1">>}
AdminTargets == {"alice", "bob"}

(* what a client can type as a TOTP: the code its authenticator shows for  *)
(* the secret it was given, or a code for no secret of the service          *)
TotpInputs(u) ==
    {Totp(Null, now \div TotpStep)} \cup
    (IF FindUser(u) # NoRow /\ FindUser(u).mfa_settings.totp # NoSub
       THEN {Totp(FindUser(u).mfa_settings.totp.secret, now \div TotpStep)}
       ELSE {})

NextSeq ==
    \/ /\ \E o \in LoginOrigins, u \in LoginNames,
             pw \in LoginPasswords, mfa \in MfaCodes :
              authenticateUser(1, o[1], o[2], u, pw, mfa)
       /\ UNCHANGED <<attempts, sequelize>>
    \/ AuthIncrement(1) /\ UNCHANGED <<attempts, sequelize>>
    \/ AuthLock(1) /\ UNCHANGED <<attempts, sequelize>>
    \/ AuthReset(1) /\ UNCHANGED <<attempts, sequelize>>
    \/ AuthFindKey(1) /\ UNCHANGED <<attempts, sequelize>>
    \/ AuthCreateToken(1) /\ UNCHANGED <<attempts, sequelize>>
    \/ /\ \E u \in AdminTargets, a \in Tri, l \in Tri : updateUser(1, u, a, l)
       /\ UNCHANGED <<attempts, sequelize>>
    \/ UpdateUserWrite(1) /\ UNCHANGED <<attempts, sequelize>>
    \/ /\ \E u \in AdminTargets, cur \in LoginPasswords, new \in LoginPasswords :
              changePassword(1, u, cur, new)
       /\ UNCHANGED <<attempts, sequelize>>
    \/ /\ \E u \in AdminTargets, new \in LoginPasswords : resetPassword(1, u, new)
       /\ UNCHANGED <<attempts, sequelize>>
    \/ ResetPasswordRevoke(1) /\ UNCHANGED <<attempts, sequelize>>
    \/ /\ \E u \in AdminTargets : createToken(1, u, "c1")
       /\ UNCHANGED <<attempts, sequelize>>
    \/ CreateTokenInsert(1) /\ UNCHANGED <<attempts, sequelize>>
    \/ /\ \E id \in 1..MaxTokens : revokeToken(1, id)
       /\ UNCHANGED <<attempts, sequelize>>
    \/ RevokeWrite(1) /\ UNCHANGED <<attempts, sequelize>>
    \/ /\ \E u \in AdminTargets : revokeAllTokensForUser(1, u)
       /\ UNCHANGED <<attempts, sequelize>>
    \/ /\ \E u \in AdminTargets : setupTOTP(1, u)
       /\ UNCHANGED <<attempts, sequelize>>
    \/ /\ \E u \in AdminTargets : \E t \in TotpInputs(u) : verifyAndEnableTOTP(1, u, t)
       /\ UNCHANGED <<attempts, sequelize>>
    \/ /\ \E u \in AdminTargets, pw \in LoginPasswords : disableMFA(1, u, pw)
       /\ UNCHANGED <<attempts, sequelize>>
    \/ MfaWrite(1) /\ UNCHANGED <<attempts, sequelize>>
    \/ Return(1) /\ UNCHANGED <<attempts, sequelize>>

SpecSeq == Init /\ [][NextSeq]_vars

----------------------------------------------------------------------------
(* Concurrent wrong-password logins for one account.  The history          *)
(* variable counts the logins whose password comparison failed.             *)

WrongPasswords == {"pw2"}

NextConc ==
    \/ \E p \in Procs, pw \in WrongPasswords :
          /\ authenticateUser(p, "c1", "10.0.0.1", "alice", pw, "")
          /\ attempts' = IF pc'[p] = "auth_incr" THEN attempts + 1 ELSE attempts
          /\ UNCHANGED sequelize
    \/ \E p \in Procs : AuthIncrement(p) /\ UNCHANGED <<attempts, sequelize>>
    \/ \E p \in Procs : AuthLock(p) /\ UNCHANGED <<attempts, sequelize>>
    \/ \E p \in Procs : Return(p) /\ UNCHANGED <<attempts, sequelize>>

SpecConc == Init /\ [][NextConc]_vars

----------------------------------------------------------------------------
(* Token lifecycle: issuance by login and by createToken, validation,      *)
(* revocation, deactivation of the user, and the passage of time.           *)

TokenIds == 1..MaxTokens

\* A JWT signed with another secret, naming an arbitrary row
Forged(id) ==
    [kind |-> "jwt", token_id |-> id, sub |-> "alice", consumer |-> "c1",
     exp |-> (now + TokenLifetime) \div UnitsPerSecond, sig |-> "forged"]

Garbage == [kind |-> "garbage"]

Presentable == issued \cup {Forged(id) : id \in TokenIds} \cup {Garbage}

Headers ==
    {[scheme |-> "", value |-> Garbage], [scheme |-> "Basic", value |-> Garbage]}
    \cup {[scheme |-> "Bearer", value |-> t] : t \in Presentable}

NextTok ==
    \/ /\ authenticateUser(1, "c1", "10.0.0.1", "alice", "pw1", "")
       /\ UNCHANGED <<attempts, sequelize>>
    \/ AuthReset(1) /\ UNCHANGED <<attempts, sequelize>>
    \/ AuthFindKey(1) /\ UNCHANGED <<attempts, sequelize>>
    \/ AuthCreateToken(1) /\ UNCHANGED <<attempts, sequelize>>
    \/ /\ \E u \in {"alice", "bob"}, c \in {"c1", "c3"} : createToken(1, u, c)
       /\ UNCHANGED <<attempts, sequelize>>
    \/ CreateTokenInsert(1) /\ UNCHANGED <<attempts, sequelize>>
    \/ /\ \E id \in TokenIds : revokeToken(1, id)
       /\ UNCHANGED <<attempts, sequelize>>
    \/ RevokeWrite(1) /\ UNCHANGED <<attempts, sequelize>>
    \/ revokeAllTokensForUser(1, "alice") /\ UNCHANGED <<attempts, sequelize>>
    \/ /\ \E t \in Presentable, c \in {"c1", "c2"} : verifyToken(1, t, c)
       /\ UNCHANGED <<attempts, sequelize>>
    \/ /\ \E h \in Headers : validateTokenFromHeader(1, h)
       /\ UNCHANGED <<attempts, sequelize>>
    \/ /\ \E a \in {"true", "false"} : updateUser(1, "alice", a, "undefined")
       /\ UNCHANGED <<attempts, sequelize>>
    \/ UpdateUserWrite(1) /\ UNCHANGED <<attempts, sequelize>>
    \/ /\ \E d \in ClockSteps : Tick(d)
       /\ UNCHANGED <<attempts, sequelize>>
    \/ Return(1) /\ UNCHANGED <<attempts, sequelize>>

SpecTok == Init /\ [][NextTok]_vars

----------------------------------------------------------------------------
(* Properties of login and lockout *)

ValidMfaCode == "123456"

\* The request got past the argument, consumer and address checks and
\* found an active user
ReachedUser(l) ==
    /\ l.op = "auth"
    /\ l.username # "" /\ l.password # ""
    /\ l.consumer \in ConsumerIds /\ Consumers[l.consumer].is_active
    /\ isIpAllowed(l.consumer, l.ip)
    /\ l.pre # NoRow

WrongPassword(l) ==
    ReachedUser(l) /\ ~verifyPassword(l.password, l.pre.password_hash)

CorrectLogin(l) ==
    /\ ReachedUser(l)
    /\ ~l.pre.is_locked
    /\ verifyPassword(l.password, l.pre.password_hash)
    /\ l.pre.mfa_settings.enabled => l.mfa_code = ValidMfaCode

(* C1: starting from an active, unlocked user with failed_attempts = 0,    *)
(* wrong-password logins made one after another count up one by one; the   *)
(* call that takes the count to 5 is the one that locks the account and    *)
(* returns ACCOUNT_LOCKED, the calls before it return an invalid-          *)
(* credentials result and leave the account unlocked.                       *)
C1_FifthFailureLocks ==
    \A p \in Procs :
        (pc[p] = "done" /\ WrongPassword(loc[p]) /\ ~loc[p].pre.is_locked) =>
            LET k == loc[p].pre.failed_attempts
                user == users[loc[p].username]
            IN  /\ user.failed_attempts = k + 1
                /\ user.is_locked = (k + 1 = LockThreshold)
                /\ res[p].code = IF k + 1 = LockThreshold
                                   THEN "ACCOUNT_LOCKED" ELSE "INVALID_PASSWORD"

(* C3: a login that returns success leaves failed_attempts = 0, and every  *)
(* login with correct credentials (the second factor included when MFA is  *)
(* enabled) returns success and performs that reset.                        *)
C3_SuccessResetsCounter ==
    \A p \in Procs :
        (pc[p] = "done" /\ loc[p].op = "auth") =>
            /\ res[p].success => users[loc[p].username].failed_attempts = 0
            /\ (CorrectLogin(loc[p]) /\ findActiveKey # {}) =>
                   /\ res[p].success
                   /\ users[loc[p].username].failed_attempts = 0

(* C4: a login for a locked account is answered ACCOUNT_LOCKED whatever    *)
(* password is submitted, in the step that reads the user, and writes       *)
(* nothing: the user row (failed_attempts, is_locked, last_login) and the   *)
(* token rows stay as they were.                                            *)
C4_LockedAccountRejected ==
    [][\A p \in Procs :
         (Idle(p) /\ ~Idle(p)' /\ ReachedUser(loc'[p]) /\ loc'[p].pre.is_locked) =>
             /\ pc'[p] = "done"
             /\ res'[p].code = "ACCOUNT_LOCKED"
             /\ ~res'[p].success
             /\ users' = users
             /\ tokens' = tokens]_vars

\* no login is in flight
Quiescent == \A p \in Procs : pc[p] \in {"idle", "done"}

(* C2: whatever the interleaving of concurrent wrong-password logins for   *)
(* one user, once they have all finished the stored failed_attempts is the *)
(* number of logins that failed the password comparison (no increment is   *)
(* lost), and a stored count of 5 or more means the account is locked.     *)
C2_NoLostFailure ==
    Quiescent =>
        /\ users["alice"].failed_attempts = attempts
        /\ users["alice"].failed_attempts >= LockThreshold =>
               users["alice"].is_locked

\* two logins that both read the count 3 have both finished
C2_Witness ==
    /\ Quiescent
    /\ \A p \in Procs : pc[p] = "done" /\ loc[p].pre.failed_attempts = 3
    /\ users["alice"].failed_attempts = 5

C4_Witness ==
    \E p \in Procs :
        /\ pc[p] = "done"
        /\ ReachedUser(loc[p])
        /\ loc[p].pre.is_locked
        /\ loc[p].pre.failed_attempts > 0
        /\ verifyPassword(loc[p].password, loc[p].pre.password_hash)
        /\ res[p].code = "ACCOUNT_LOCKED"

\* the write of updateUser(is_locked = false), or the write of resetPassword
UnlockStep(p, u) ==
    \/ /\ pc[p] = "upd_write"
       /\ loc[p].username = u
       /\ loc[p].is_locked = "false"
    \/ /\ Idle(p)
       /\ loc'[p].op = "resetPassword"
       /\ loc'[p].username = u

(* C5: a locked account stays locked through every login, token, MFA and *)
(* password-change step; is_locked goes from true to false only in the     *)
(* write of updateUser called with is_locked = false and in the write of    *)
(* resetPassword, and that same write stores failed_attempts = 0.           *)
C5_OnlyAdminUnlocks ==
    [][\A u \in DOMAIN users :
         (users[u].is_locked /\ ~users'[u].is_locked) =>
             /\ \E p \in Procs : UnlockStep(p, u)
             /\ users'[u].failed_attempts = 0]_vars

\* an account locked by failed logins has just been unlocked by updateUser
C5_Witness ==
    \E p \in Procs :
        /\ pc[p] = "done"
        /\ loc[p].op = "updateUser"
        /\ loc[p].is_locked = "false"
        /\ loc[p].inst # NoRow
        /\ loc[p].inst.is_locked
        /\ loc[p].inst.failed_attempts > 0
        /\ ~users[loc[p].username].is_locked
        /\ users[loc[p].username].failed_attempts = 0

----------------------------------------------------------------------------
(* Properties of token validation and revocation *)

Validating(p) ==
    pc[p] = "done" /\ loc[p].op \in {"verifyToken", "validateTokenFromHeader"}

\* the row created when the presented token was issued
IssuedRecord(token) ==
    {r \in tokens :
        \/ token.kind = "jwt" /\ r.id = token.token_id
        \/ token.kind = "raw" /\ r.token_hash = hashData(token)}

\* a token handed to the validation path of the issuer that returned it
PresentedAsIssued(l) ==
    /\ l.presented \in issued
    /\ \/ l.op = "verifyToken" /\ l.presented.kind = "jwt"
       \/ /\ l.op = "validateTokenFromHeader"
          /\ l.scheme = "Bearer"
          /\ l.presented.kind = "raw"

UserActive(u) == FindUser(u) # NoRow /\ FindUser(u).is_active

(* C6: an issued token, presented by the consumer it was issued to,        *)
(* validates at every time before its expires_at while it is unrevoked and *)
(* its user is active; presented after expires_at, with its row still      *)
(* stored, validation answers TOKEN_EXPIRED.                                *)
C6_ValidUntilExpiry ==
    \A p \in Procs :
        (Validating(p) /\ PresentedAsIssued(loc[p])) =>
            \A r \in IssuedRecord(loc[p].presented) :
                /\ ( /\ loc[p].at < r.expires_at
                     /\ ~r.is_revoked
                     /\ UserActive(r.user_id)
                     /\ loc[p].op = "verifyToken" => loc[p].consumer = r.consumer_id )
                   => res[p].success
                /\ loc[p].at > r.expires_at => res[p].code = "TOKEN_EXPIRED"

\* what C7 expects of verifyToken for a token it issued; "FAILURE" stands
\* for the inactive-user case, for which the claim names no code
ExpectedCode(l) ==
    IF FindToken(l.presented.token_id) = {} THEN "TOKEN_NOT_FOUND"
    ELSE LET r == CHOOSE x \in FindToken(l.presented.token_id) : TRUE
         IN  IF r.is_revoked THEN "TOKEN_REVOKED"
             ELSE IF l.at > r.expires_at THEN "TOKEN_EXPIRED"
             ELSE IF r.consumer_id # l.consumer THEN "CONSUMER_MISMATCH"
             ELSE IF ~UserActive(r.user_id) THEN "FAILURE"
             ELSE "SUCCESS"

(* C7: verifyToken succeeds only for a stored, unrevoked, unexpired row of *)
(* the presenting consumer whose user is active; otherwise it fails with    *)
(* the code of the first failed check: TOKEN_NOT_FOUND, TOKEN_REVOKED,      *)
(* TOKEN_EXPIRED, CONSUMER_MISMATCH.                                        *)
C7_FirstFailedCheck ==
    \A p \in Procs :
        (pc[p] = "done" /\ loc[p].op = "verifyToken") =>
            IF loc[p].presented \in issued /\ loc[p].presented.kind = "jwt"
              THEN /\ res[p].success = (ExpectedCode(loc[p]) = "SUCCESS")
                   /\ ExpectedCode(loc[p]) # "FAILURE" =>
                          res[p].code = ExpectedCode(loc[p])
              ELSE ~res[p].success

(* C8: whenever validation locates a stored row, it is the row whose       *)
(* token_hash is the hash of the presented token, never a row picked by an *)
(* identifier read out of the presented token.                              *)
C8_LocatedByHash ==
    \A p \in Procs :
        (Validating(p) /\ res[p].record # Null) =>
            \A r \in FindToken(res[p].record) :
                r.token_hash = hashData(loc[p].presented)

(* C9: revokeToken on a row that is already revoked reports a no-op, not   *)
(* an error result, and leaves the row, revoked_at included, as it was.     *)
C9_SecondRevokeNoOp ==
    \A p \in Procs :
        ( /\ pc[p] = "done"
          /\ loc[p].op = "revokeToken"
          /\ loc[p].inst # NoRow
          /\ loc[p].inst.is_revoked )
        => /\ res[p].success
           /\ FindToken(loc[p].token_id) = {loc[p].inst}

----------------------------------------------------------------------------
(* Key administration: rotations, revocations and the expiry check run     *)
(* concurrently while time passes.                                          *)

KeyClockSteps == {KeyValidity - WarningWindow + 1}

NextKeys ==
    \/ \E p \in Procs : rotateProviderKey(p) /\ UNCHANGED <<attempts, sequelize>>
    \/ \E p \in Procs : RotateBegin(p) /\ UNCHANGED <<attempts, sequelize>>
    \/ \E p \in Procs : RotateUpdate(p) /\ UNCHANGED <<attempts, sequelize>>
    \/ \E p \in Procs : RotateUpdateFinish(p) /\ UNCHANGED <<attempts, sequelize>>
    \/ \E p \in Procs : RotateInsert(p) /\ UNCHANGED <<attempts, sequelize>>
    \/ \E p \in Procs : RotateCommit(p) /\ UNCHANGED <<attempts, sequelize>>
    \/ \E p \in Procs : RotateFail(p) /\ UNCHANGED <<attempts, sequelize>>
    \/ \E p \in Procs, id \in 1..MaxKeys :
          revokeProviderKey(p, id) /\ UNCHANGED <<attempts, sequelize>>
    \/ \E p \in Procs : RevokeKeyWrite(p) /\ UNCHANGED <<attempts, sequelize>>
    \/ \E p \in Procs : checkAndRotateExpiringKeys(p) /\ UNCHANGED <<attempts, sequelize>>
    \/ \E d \in KeyClockSteps : Tick(d) /\ UNCHANGED <<attempts, sequelize>>
    \/ \E p \in Procs : Return(p) /\ UNCHANGED <<attempts, sequelize>>

SpecKeys == Init /\ [][NextKeys]_vars

(* C10: in every reachable state, concurrent rotations included, at most   *)
(* one provider key has status active.                                      *)
C10_SingleActiveKey == Cardinality(ActiveKeys) <= 1

\* a step of the rotation that request p is running
RotationStep(p) ==
    /\ pc[p] \in RotationLabels
    /\ <<pc[p], loc[p], txn[p]>> # <<pc'[p], loc'[p], txn'[p]>>

(* C11: a step of rotateKey that is not its successful commit, the failure  *)
(* of any statement and the rollback included, leaves the committed         *)
(* provider keys and their statuses as they were; and no step of a          *)
(* rotation takes the committed keys, which are what other requests read,   *)
(* from at least one active key to none.                                     *)
C11_RotationAllOrNothing ==
    [][\A p \in Procs : RotationStep(p) =>
          /\ loc'[p].rotated = loc[p].rotated => keys' = keys
          /\ ActiveKeys # {} => {k \in keys' : k.status = "active"} # {}]_vars

\* a rotation failed after its INSERT: an id is used up and no row has it
C11_Witness ==
    \E p \in Procs :
       /\ res[p] = Result("rotateProviderKey", FALSE, "SYSTEM_ERROR")
       /\ \A q \in Procs : pc[q] \notin RotationLabels
       /\ nextId.key - 1 > Cardinality(keys)
       /\ Cardinality(ActiveKeys) = 1

(* C12: a provider key whose status is revoked stays revoked through every  *)
(* step of rotateKey, revokeKey and checkAndRotateExpiringKeys, and the     *)
(* write of revokeKey sets the status of the key with the given id to       *)
(* revoked and leaves every other key as it was.                            *)
C12_RevokedStaysRevoked ==
    [][/\ \A k \in keys : k.status = "revoked" => k \in keys'
       /\ \A p \in Procs : pc[p] = "key_write" /\ pc'[p] # "key_write" =>
             keys' = {IF k.id = loc[p].key_id
                        THEN [k EXCEPT !.status = "revoked"] ELSE k : k \in keys}]_vars

\* a key was revoked while it was in the snapshot of a rotation's UPDATE
C12_Witness ==
    \E p \in Procs, k \in keys :
       /\ pc[p] \in {"rot_insert", "rot_commit"}
       /\ k.id \in txn[p].targets
       /\ k.status = "revoked"

----------------------------------------------------------------------------
(* Issuance while keys are administered: logins and createToken calls are  *)
(* served concurrently with one stream of requests that validates tokens    *)
(* and carries the administrator's rotations and revocations.               *)

NextIssue ==
    \/ /\ \E p \in Procs : authenticateUser(p, "c1", "10.0.0.1", "alice", "pw1", "")
       /\ UNCHANGED <<attempts, sequelize>>
    \/ \E p \in Procs : AuthReset(p) /\ UNCHANGED <<attempts, sequelize>>
    \/ \E p \in Procs : AuthFindKey(p) /\ UNCHANGED <<attempts, sequelize>>
    \/ \E p \in Procs : AuthCreateToken(p) /\ UNCHANGED <<attempts, sequelize>>
    \/ \E p \in Procs : createToken(p, "alice", "c1") /\ UNCHANGED <<attempts, sequelize>>
    \/ \E p \in Procs : CreateTokenInsert(p) /\ UNCHANGED <<attempts, sequelize>>
    \/ \E t \in issued : verifyToken(1, t, "c1") /\ UNCHANGED <<attempts, sequelize>>
    \/ /\ \E t \in issued :
             validateTokenFromHeader(1, [scheme |-> "Bearer", value |-> t])
       /\ UNCHANGED <<attempts, sequelize>>
    \/ rotateProviderKey(1) /\ UNCHANGED <<attempts, sequelize>>
    \/ RotateBegin(1) /\ UNCHANGED <<attempts, sequelize>>
    \/ RotateUpdate(1) /\ UNCHANGED <<attempts, sequelize>>
    \/ RotateUpdateFinish(1) /\ UNCHANGED <<attempts, sequelize>>
    \/ RotateInsert(1) /\ UNCHANGED <<attempts, sequelize>>
    \/ RotateCommit(1) /\ UNCHANGED <<attempts, sequelize>>
    \/ RotateFail(1) /\ UNCHANGED <<attempts, sequelize>>
    \/ \E id \in 1..MaxKeys : revokeProviderKey(1, id) /\ UNCHANGED <<attempts, sequelize>>
    \/ RevokeKeyWrite(1) /\ UNCHANGED <<attempts, sequelize>>
    \/ \E p \in Procs : Return(p) /\ UNCHANGED <<attempts, sequelize>>

SpecIssue == Init /\ [][NextIssue]_vars

\* request p reads the signing key for the token it is issuing
ReadsKey(p) ==
    \/ pc[p] = "auth_key" /\ pc'[p] = "auth_create"
    \/ pc[p] = "idle" /\ pc'[p] = "tok_create"

(* C13: an issuance takes the active key of highest version at the moment  *)
(* it reads the key, the token row it then creates carries the id of that   *)
(* key, and no later step changes the provider_key_id of a stored row; a    *)
(* committed rotation leaves the validation outcome of every issued token   *)
(* as it was, and from then on the key an issuance reads is the key that    *)
(* rotation inserted.                                                       *)
C13_KeyPinnedAtIssuance ==
    [][/\ \A p \in Procs : ReadsKey(p) =>
             loc'[p].key \in {k.id : k \in findActiveKey}
       /\ \A t \in tokens' :
             IF FindToken(t.id) = {}
               THEN \E p \in Procs : /\ pc[p] \in {"auth_create", "tok_create"}
                                     /\ t.provider_key_id = loc[p].key
               ELSE \A s \in FindToken(t.id) : s.provider_key_id = t.provider_key_id
       /\ (pc[1] = "rot_commit" /\ pc'[1] = "done" /\ res'[1].success) =>
             /\ findActiveKey' = txn[1].inserted
             /\ \A t \in issued :
                   /\ VerifyOutcome(t, "c1")' = VerifyOutcome(t, "c1")
                   /\ HeaderOutcome([scheme |-> "Bearer", value |-> t])'
                        = HeaderOutcome([scheme |-> "Bearer", value |-> t])]_vars

(* a token issued under the first key has just been validated after the    *)
(* rotation, and a token issued after the rotation carries the new key      *)
C13_Witness ==
    \E p \in Procs, old \in tokens, new \in tokens :
       /\ pc[p] = "done"
       /\ loc[p].op = "verifyToken"
       /\ res[p].success
       /\ res[p].record = old.id
       /\ \E k \in keys : k.id = old.provider_key_id /\ k.status = "inactive"
       /\ new.id > old.id
       /\ {k.id : k \in findActiveKey} = {new.provider_key_id}

----------------------------------------------------------------------------
(* Second factor at login: the verifiers of the three methods and the      *)
(* generation of one-time codes, served concurrently for an enrolled user   *)
(* while time passes.                                                       *)

\* the backup codes the client tries, out of the ten it was given
TriedBackupCodes == {c \in BackupCodes(0) : c.n <= 2}

(* what a client can submit: a backup code, a one-time code that was sent  *)
(* to it at some time (or none that was, serial 0), a TOTP                   *)
LoginCodes ==
    TriedBackupCodes \cup {NumericCode(k) : k \in 0..(nextId.code - 1)}
       \cup TotpInputs("alice")

MfaClockSteps == {OtpLifetime("sms") + 1}

NextMfaLogin ==
    \/ /\ \E p \in Procs, c \in LoginCodes : verifyTOTP(p, "alice", c)
       /\ UNCHANGED <<attempts, sequelize>>
    \/ /\ \E p \in Procs, m \in OtpMethods, c \in LoginCodes :
             verifyOTP(p, "alice", m, c)
       /\ UNCHANGED <<attempts, sequelize>>
    \/ /\ \E p \in Procs, m \in OtpMethods : generateAndSendOTP(p, "alice", m)
       /\ UNCHANGED <<attempts, sequelize>>
    \/ \E p \in Procs : MfaWrite(p) /\ UNCHANGED <<attempts, sequelize>>
    \/ \E d \in MfaClockSteps : Tick(d) /\ UNCHANGED <<attempts, sequelize>>
    \/ \E p \in Procs : Return(p) /\ UNCHANGED <<attempts, sequelize>>

SpecMfaLogin == InitEnrol /\ [][NextMfaLogin]_vars

\* request p has read the settings and no other request has written since
Unraced(p) == users[loc[p].username].mfa_settings = loc[p].read

\* request p completes the update of handler op
Writes(p, ops) ==
    pc[p] = "mfa_write" /\ pc'[p] = "done" /\ loc[p].op \in ops

OtpVerifiers == {"verifySMSOTP", "verifyEmailOTP"}

C16_BackupCodeAnyMethod ==
    \A p \in Procs :
       (/\ pc[p] = "done"
        /\ loc[p].op \in {"verifyTOTP"} \cup OtpVerifiers
        /\ loc[p].read # NoRow
        /\ loc[p].read.enabled
        /\ loc[p].op = (CASE loc[p].read.preferred_method = "totp" -> "verifyTOTP"
                          [] loc[p].read.preferred_method = "sms" -> "verifySMSOTP"
                          [] OTHER -> "verifyEmailOTP")
        /\ loc[p].submitted
              \in loc[p].read[loc[p].read.preferred_method].backup_codes)
       => res[p].success

\* request p is about to return success for the code it was given
Accepting(p, ops) ==
    pc[p] = "mfa_write" /\ loc[p].op \in ops /\ loc[p].result.success

(* C17: no two login-time verifications that overlap in time both accept   *)
(* the same backup code.                                                    *)
C17_BackupCodeAcceptedOnce ==
    \A p, q \in Procs :
       (p # q /\ Accepting(p, {"verifyTOTP"}) /\ Accepting(q, {"verifyTOTP"}))
       => loc[p].submitted # loc[q].submitted

(* C18: no two verifySMSOTP / verifyEmailOTP calls that overlap in time    *)
(* both accept the same generated one-time code.                            *)
C18_OtpAcceptedOnce ==
    \A p, q \in Procs :
       (p # q /\ Accepting(p, OtpVerifiers) /\ Accepting(q, OtpVerifiers))
       => loc[p].submitted # loc[q].submitted

\* the sub-record of the method that handler op of request p verifies
OtpOf(l) == IF l.op = "verifySMSOTP" THEN "sms" ELSE "email"

(* C19: verifySMSOTP / verifyEmailOTP accept only the stored code and not  *)
(* after its otp_expires_at; a call that accepted the code or found it      *)
(* expired, and was not raced by another write, leaves no stored code and   *)
(* no expiry behind; a call that rejects a non-matching code leaves the     *)
(* stored settings as they were.                                            *)
C19_OtpExpiryAndConsumption ==
    [][\A p \in Procs :
          /\ (pc[p] = "idle" /\ pc'[p] # "idle" /\ loc'[p].op \in OtpVerifiers) =>
                /\ loc'[p].result.success =>
                      /\ now <= loc'[p].read[OtpOf(loc'[p])].otp_expires_at
                      /\ loc'[p].submitted = loc'[p].read[OtpOf(loc'[p])].current_otp
                /\ loc'[p].result.code = "INVALID_OTP" => users' = users
          /\ (Writes(p, OtpVerifiers) /\ Unraced(p)) =>
                /\ users'[loc[p].username].mfa_settings[OtpOf(loc[p])].current_otp
                     = NoCode
                /\ users'[loc[p].username].mfa_settings[OtpOf(loc[p])].otp_expires_at
                     = Null]_vars

\* a one-time code was accepted and is no longer stored
C19_Witness ==
    \E p \in Procs :
       /\ pc[p] = "done" /\ loc[p].op \in OtpVerifiers
       /\ res[p].success
       /\ loc[p].read[OtpOf(loc[p])].current_otp = loc[p].submitted
       /\ users[loc[p].username].mfa_settings[OtpOf(loc[p])].current_otp = NoCode

----------------------------------------------------------------------------
(* Enrolment: setup, verify-and-enable and disable calls for one user, in   *)
(* any interleaving, on a row that is new or already enrolled.  The clock   *)
(* moves once, past the lifetime of a verification code.                    *)

\* what a client can submit to confirm method m: the code that was sent to
\* it, or one that was not (serial 0)
EnrolCodes(m) ==
    {NumericCode(0)} \cup
    (IF users["alice"].mfa_settings[m] # NoSub
       THEN {users["alice"].mfa_settings[m].verification_code} \ {NoCode}
       ELSE {})

EnrolClockSteps == {VerificationLifetime("sms") + 1}

NextMfaEnrol ==
    \/ \E p \in Procs : setupTOTP(p, "alice") /\ UNCHANGED <<attempts, sequelize>>
    \/ /\ \E p \in Procs, t \in TotpInputs("alice") :
             verifyAndEnableTOTP(p, "alice", t)
       /\ UNCHANGED <<attempts, sequelize>>
    \/ /\ \E p \in Procs, m \in OtpMethods, valid \in BOOLEAN :
             setupOtpMFA(p, "alice", m, valid)
       /\ UNCHANGED <<attempts, sequelize>>
    \/ /\ \E p \in Procs, m \in OtpMethods : \E c \in EnrolCodes(m) :
             verifyAndEnableOtpMFA(p, "alice", m, c)
       /\ UNCHANGED <<attempts, sequelize>>
    \/ /\ \E p \in Procs, pw \in Passwords : disableMFA(p, "alice", pw)
       /\ UNCHANGED <<attempts, sequelize>>
    \/ \E p \in Procs : MfaWrite(p) /\ UNCHANGED <<attempts, sequelize>>
    \/ /\ ticks = 0
       /\ \E d \in EnrolClockSteps : Tick(d)
       /\ UNCHANGED <<attempts, sequelize>>
    \/ \E p \in Procs : Return(p) /\ UNCHANGED <<attempts, sequelize>>

SpecMfaEnrol == InitEnrol /\ [][NextMfaEnrol]_vars

(* C20: in every reachable state, under any interleaving of setup,         *)
(* verify-and-enable and disable calls, a user whose mfa_settings.enabled  *)
(* is true has a preferred_method among totp / sms / email, and the        *)
(* sub-record of that method exists with verified = true.                  *)
C20_EnabledImpliesVerified ==
    \A u \in DOMAIN users :
       users[u].mfa_settings.enabled =>
          /\ users[u].mfa_settings.preferred_method \in MfaMethods
          /\ users[u].mfa_settings[users[u].mfa_settings.preferred_method] # NoSub
          /\ users[u].mfa_settings[users[u].mfa_settings.preferred_method].verified

\* MFA was enabled by a verify-and-enable call while another call that had
\* read the settings before is still to write its own copy
C20_Witness ==
    \E p, q \in Procs :
       /\ p # q
       /\ pc[p] = "done" /\ res[p].success
       /\ loc[p].op \in {"verifyAndEnableTOTP", "verifyAndEnableSMSMFA",
                          "verifyAndEnableEmailMFA"}
       /\ users[loc[p].username].mfa_settings = loc[p].draft
       /\ pc[q] = "mfa_write" /\ loc[q].read = loc[p].read

----------------------------------------------------------------------------
(* Issuance while keys are revoked: logins, direct issuance and key         *)
(* revocation, one request at a time, for a user who is new or enrolled.    *)

NextNoKey ==
    \/ /\ \E pw \in Passwords, mfa \in MfaCodes :
             authenticateUser(1, "c1", "10.0.0.1", "alice", pw, mfa)
       /\ UNCHANGED <<attempts, sequelize>>
    \/ AuthIncrement(1) /\ UNCHANGED <<attempts, sequelize>>
    \/ AuthLock(1) /\ UNCHANGED <<attempts, sequelize>>
    \/ AuthReset(1) /\ UNCHANGED <<attempts, sequelize>>
    \/ AuthFindKey(1) /\ UNCHANGED <<attempts, sequelize>>
    \/ AuthCreateToken(1) /\ UNCHANGED <<attempts, sequelize>>
    \/ createToken(1, "alice", "c1") /\ UNCHANGED <<attempts, sequelize>>
    \/ CreateTokenInsert(1) /\ UNCHANGED <<attempts, sequelize>>
    \/ \E id \in 1..MaxKeys : revokeProviderKey(1, id) /\ UNCHANGED <<attempts, sequelize>>
    \/ RevokeKeyWrite(1) /\ UNCHANGED <<attempts, sequelize>>
    \/ \E d \in ClockSteps : Tick(d) /\ UNCHANGED <<attempts, sequelize>>
    \/ Return(1) /\ UNCHANGED <<attempts, sequelize>>

SpecNoKey == InitEnrol /\ [][NextNoKey]_vars

\* createToken was called for a user and a consumer that it accepts
ValidIssuance(l) ==
    /\ FindUser(l.username) # NoRow
    /\ FindUser(l.username).is_active
    /\ ~FindUser(l.username).is_locked
    /\ l.consumer \in ConsumerIds
    /\ Consumers[l.consumer].is_active

(* C14: while no provider key has status = active, a login with correct    *)
(* credentials and a direct issuance for a valid user and consumer both    *)
(* end with CONFIGURATION_ERROR, and neither adds a token record.          *)
C14_NoActiveKeyConfigurationError ==
    [][\A p \in Procs :
          (/\ ActiveKeys = {}
           /\ pc[p] # "done" /\ pc'[p] = "done"
           /\ \/ loc'[p].op = "auth" /\ CorrectLogin(loc'[p])
              \/ loc'[p].op = "createToken" /\ ValidIssuance(loc'[p]))
          => /\ ~res'[p].success
             /\ res'[p].code = "CONFIGURATION_ERROR"
             /\ tokens' = tokens]_vars

EnableOps ==
    {"verifyAndEnableTOTP", "verifyAndEnableSMSMFA", "verifyAndEnableEmailMFA"}

\* the method the handler named in the locals l confirms
EnableOf(l) ==
    CASE l.op = "verifyAndEnableTOTP" -> "totp"
      [] l.op = "verifyAndEnableSMSMFA" -> "sms"
      [] OTHER -> "email"

(* the call recorded in l was made without a pending setup of its method,  *)
(* after the pending code expired, or with a code other than the pending    *)
(* one (for TOTP: not a code of the stored secret for the current step or   *)
(* one of its two neighbours)                                               *)
EnableMustFail(l) ==
    LET m == EnableOf(l)
    IN  \/ l.read[m] = NoSub
        \/ /\ m = "totp"
           /\ \/ l.submitted.kind # "totp"
              \/ l.submitted.secret # l.read.totp.secret
              \/ l.submitted.step < now \div TotpStep - 1
              \/ l.submitted.step > now \div TotpStep + 1
        \/ /\ m # "totp"
           /\ \/ l.read[m].verification_code = NoCode
              \/ now > l.read[m].verification_code_expires_at
              \/ l.submitted # l.read[m].verification_code

(* C21: a verify-and-enable call (TOTP, SMS or email) made with a wrong    *)
(* code, after the code expired or without a pending setup returns a        *)
(* failure in the step that reads the user and writes nothing: the users    *)
(* table, mfa_settings included, is as it was, so MFA stays disabled, the   *)
(* method unverified, no backup codes exist and the pending secret or code  *)
(* is still stored for a retry.                                             *)
C21_FailedEnableChangesNothing ==
    [][\A p \in Procs :
          (/\ pc[p] = "idle" /\ pc'[p] # "idle"
           /\ loc'[p].op \in EnableOps
           /\ EnableMustFail(loc'[p]))
          => /\ pc'[p] = "done"
             /\ ~res'[p].success
             /\ users' = users
             /\ nextId' = nextId]_vars

\* a wrong code was refused while the setup is pending, and the code that
\* was sent is still stored and has not expired
C21_Witness ==
    \E p \in Procs :
       /\ pc[p] = "done" /\ loc[p].op = "verifyAndEnableSMSMFA"
       /\ res[p].code = "INVALID_VERIFICATION_CODE"
       /\ ~users["alice"].mfa_settings.enabled
       /\ users["alice"].mfa_settings.sms # NoSub
       /\ ~users["alice"].mfa_settings.sms.verified
       /\ users["alice"].mfa_settings.sms.verification_code = loc[p].read.sms.verification_code
       /\ users["alice"].mfa_settings.sms.verification_code # NoCode
       /\ now <= users["alice"].mfa_settings.sms.verification_code_expires_at

----------------------------------------------------------------------------
(* The life of one user's second factor, one request at a time: setup,      *)
(* verify-and-enable and the login-time verifiers.  The clock moves once,   *)
(* past the lifetime of an SMS one-time code.                               *)

TotpDrift == -2 .. 2

Serials == 0 .. (nextId.code - 1)

(* what a client can submit: for any secret handed out so far the code its *)
(* authenticator shows up to two time steps before or after now, any        *)
(* numeric code sent so far (or none that was, serial 0), the first backup  *)
(* codes of any batch                                                       *)
TotpCodes == {Totp(k, now \div TotpStep + d) : k \in Serials, d \in TotpDrift}
SentCodes == {NumericCode(k) : k \in Serials}
KnownBackupCodes == UNION {{c \in BackupCodes(k) : c.n <= 2} : k \in Serials}

SeqClockSteps == {OtpLifetime("sms") + 1}

NextMfaSeq ==
    \/ setupTOTP(1, "alice") /\ UNCHANGED <<attempts, sequelize>>
    \/ \E t \in TotpCodes : verifyAndEnableTOTP(1, "alice", t)
          /\ UNCHANGED <<attempts, sequelize>>
    \/ \E m \in OtpMethods : setupOtpMFA(1, "alice", m, TRUE)
          /\ UNCHANGED <<attempts, sequelize>>
    \/ \E m \in OtpMethods, c \in SentCodes : verifyAndEnableOtpMFA(1, "alice", m, c)
          /\ UNCHANGED <<attempts, sequelize>>
    \/ \E c \in TotpCodes \cup KnownBackupCodes : verifyTOTP(1, "alice", c)
          /\ UNCHANGED <<attempts, sequelize>>
    \/ \E m \in OtpMethods : generateAndSendOTP(1, "alice", m)
          /\ UNCHANGED <<attempts, sequelize>>
    \/ \E m \in OtpMethods, c \in SentCodes \cup KnownBackupCodes :
             verifyOTP(1, "alice", m, c)
          /\ UNCHANGED <<attempts, sequelize>>
    \/ MfaWrite(1) /\ UNCHANGED <<attempts, sequelize>>
    \/ /\ ticks = 0
       /\ \E d \in SeqClockSteps : Tick(d)
       /\ UNCHANGED <<attempts, sequelize>>
    \/ Return(1) /\ UNCHANGED <<attempts, sequelize>>

SpecMfaSeq == Init /\ [][NextMfaSeq]_vars

(* C22: the step that completes a successful verify-and-enable of method m *)
(* leaves the stored settings with enabled = true, preferred_method = m,    *)
(* m verified and the ten backup codes that the call returns; and at login  *)
(* the verifier of the preferred method accepts each of the stored backup   *)
(* codes.                                                                   *)
C22_EnableStoresUsableBackupCodes ==
    [][\A p \in Procs :
          /\ (Writes(p, EnableOps) /\ res'[p].success) =>
                LET m == EnableOf(loc[p])
                    after == users'[loc[p].username].mfa_settings
                IN  /\ after.enabled
                    /\ after.preferred_method = m
                    /\ after[m].verified
                    /\ after[m].backup_codes = loc[p].draft[m].backup_codes
                    /\ Cardinality(after[m].backup_codes) = NumBackupCodes
          /\ (/\ pc[p] = "idle" /\ pc'[p] # "idle"
              /\ loc'[p].op \in {"verifyTOTP"} \cup OtpVerifiers
              /\ loc'[p].read.enabled
              /\ loc'[p].op = (CASE loc'[p].read.preferred_method = "totp" -> "verifyTOTP"
                                 [] loc'[p].read.preferred_method = "sms" -> "verifySMSOTP"
                                 [] OTHER -> "verifyEmailOTP")
              /\ loc'[p].submitted
                    \in loc'[p].read[loc'[p].read.preferred_method].backup_codes)
             => loc'[p].result.success]_vars

\* the call reaches the comparison of a code of the stored secret
ReachesTotpCheck(l) ==
    /\ l.op \in {"verifyTOTP", "verifyAndEnableTOTP"}
    /\ l.read.totp # NoSub
    /\ l.submitted.kind = "totp"
    /\ l.submitted.secret = l.read.totp.secret
    /\ l.op = "verifyTOTP" => l.read.enabled /\ l.read.totp.verified
    /\ l.op = "verifyAndEnableTOTP" => ~(l.read.enabled /\ l.read.totp.verified)

(* C24: at login and at verify-and-enable, a TOTP code of the stored secret *)
(* is accepted exactly when it is the code of the current time step, of the *)
(* step before it or of the step after it; a code two steps away is         *)
(* rejected.                                                                *)
C24_TotpWindowOfOne ==
    [][\A p \in Procs :
          (pc[p] = "idle" /\ pc'[p] # "idle" /\ ReachesTotpCheck(loc'[p])) =>
             (loc'[p].result.success <=>
                 loc'[p].submitted.step \in
                    (now \div TotpStep - 1) .. (now \div TotpStep + 1))]_vars

\* a code of the step before the current one was accepted at login
C24_Witness ==
    \E p \in Procs :
       /\ pc[p] = "done" /\ loc[p].op = "verifyTOTP" /\ res[p].success
       /\ loc[p].submitted.kind = "totp"
       /\ loc[p].submitted.step = now \div TotpStep - 1

----------------------------------------------------------------------------
(* The second factor at the gate: logins, the login-time verifiers and      *)
(* disableMFA, one request at a time, for a user who is new or enrolled.    *)

NextMfaGate ==
    \/ \E m \in OtpMethods : generateAndSendOTP(1, "alice", m)
          /\ UNCHANGED <<attempts, sequelize>>
    \/ \E c \in TotpCodes \cup KnownBackupCodes : verifyTOTP(1, "alice", c)
          /\ UNCHANGED <<attempts, sequelize>>
    \/ \E m \in OtpMethods, c \in SentCodes \cup KnownBackupCodes :
             verifyOTP(1, "alice", m, c)
          /\ UNCHANGED <<attempts, sequelize>>
    \/ \E pw \in Passwords : disableMFA(1, "alice", pw)
          /\ UNCHANGED <<attempts, sequelize>>
    \/ MfaWrite(1) /\ UNCHANGED <<attempts, sequelize>>
    \/ /\ \E mfa \in MfaCodes \cup {"000000"} :
             authenticateUser(1, "c1", "10.0.0.1", "alice", "pw1", mfa)
       /\ UNCHANGED <<attempts, sequelize>>
    \/ AuthReset(1) /\ UNCHANGED <<attempts, sequelize>>
    \/ AuthFindKey(1) /\ UNCHANGED <<attempts, sequelize>>
    \/ AuthCreateToken(1) /\ UNCHANGED <<attempts, sequelize>>
    \/ Return(1) /\ UNCHANGED <<attempts, sequelize>>

SpecMfaGate == InitEnrol /\ [][NextMfaGate]_vars

(* C25: a login of an unlocked user with MFA enabled and the correct       *)
(* password ends with MFA_REQUIRED and no token when no code is submitted,  *)
(* with INVALID_MFA and no token when the code is one that the verifier     *)
(* rejects, and with success and a token when the code is one that the      *)
(* verifier accepts.                                                        *)
C25_LoginWithSecondFactor ==
    \A p \in Procs :
       (/\ pc[p] = "done" /\ loc[p].op = "auth"
        /\ ReachedUser(loc[p])
        /\ ~loc[p].pre.is_locked
        /\ verifyPassword(loc[p].password, loc[p].pre.password_hash)
        /\ loc[p].pre.mfa_settings.enabled)
       => CASE loc[p].mfa_code = "" ->
                 res[p].code = "MFA_REQUIRED" /\ res[p].token = NoRow
            [] loc[p].mfa_code = ValidMfaCode ->
                 res[p].success /\ res[p].token # NoRow
            [] OTHER ->
                 res[p].code = "INVALID_MFA" /\ res[p].token = NoRow

\* the login-time verifiers
Verifiers == {"verifyTOTP"} \cup OtpVerifiers

(* C26: disableMFA with a wrong current password fails and leaves the      *)
(* users table as it was; with the correct password, for a user with MFA    *)
(* enabled, it stores settings with enabled = false, no preferred method    *)
(* and no method sub-record, keeping only the method that was disabled;     *)
(* while MFA is disabled every login-time verifier rejects every code, and  *)
(* a login with the correct password succeeds with a token.                 *)
C26_DisableClearsSecondFactor ==
    [][\A p \in Procs :
          /\ (/\ pc[p] = "idle" /\ pc'[p] # "idle"
              /\ loc'[p].op = "disableMFA"
              /\ ~verifyPassword(loc'[p].submitted,
                                 users[loc'[p].username].password_hash))
             => pc'[p] = "done" /\ ~res'[p].success /\ users' = users
          /\ (/\ pc[p] = "idle" /\ pc'[p] # "idle"
              /\ loc'[p].op = "disableMFA"
              /\ loc'[p].read.enabled
              /\ verifyPassword(loc'[p].submitted,
                                users[loc'[p].username].password_hash))
             => pc'[p] = "mfa_write" /\ loc'[p].result.success
          /\ Writes(p, {"disableMFA"}) =>
                users'[loc[p].username].mfa_settings =
                   [enabled |-> FALSE, preferred_method |-> "none",
                    totp |-> NoSub, sms |-> NoSub, email |-> NoSub,
                    previous_method |-> loc[p].read.preferred_method]
          /\ (/\ pc[p] = "idle" /\ pc'[p] # "idle"
              /\ loc'[p].op \in Verifiers
              /\ ~users[loc'[p].username].mfa_settings.enabled)
             => pc'[p] = "done" /\ ~res'[p].success
          /\ (/\ pc[p] # "done" /\ pc'[p] = "done"
              /\ loc'[p].op = "auth"
              /\ CorrectLogin(loc'[p])
              /\ ~loc'[p].pre.mfa_settings.enabled
              /\ findActiveKey # {})
             => res'[p].success /\ res'[p].token # NoRow]_vars

\* MFA was disabled from a method, and a login without a code got a token
C26_Witness ==
    \E p \in Procs :
       /\ pc[p] = "done" /\ loc[p].op = "auth" /\ res[p].success
       /\ loc[p].mfa_code = ""
       /\ loc[p].pre.mfa_settings.previous_method \in MfaMethods
       /\ ~loc[p].pre.mfa_settings.enabled

----------------------------------------------------------------------------
(* generateBackupCode: a loop of ten rounds over the alphabet 0-9A-Z; the   *)
(* round with i = 5 appends the hyphen instead of a drawn character.        *)

Chars ==
    <<"0", "1", "2", "3", "4", "5", "6", "7", "8", "9", "A", "B", "C", "D",
      "E", "F", "G", "H", "I", "J", "K", "L", "M", "N", "O", "P", "Q", "R",
      "S", "T", "U", "V", "W", "X", "Y", "Z">>

BackupCodeRounds == 10
HyphenRound == 5

\* rounds in which Math.random() is called
DrawingRounds == (0 .. (BackupCodeRounds - 1)) \ {HyphenRound}

\* values of Math.floor(Math.random() * chars.length) that are tried
DrawnIndexes == {0, 10, Len(Chars) - 1}

RECURSIVE BackupCodeFrom(_, _)
\* the characters appended from round i on
BackupCodeFrom(draws, i) ==
    IF i >= BackupCodeRounds THEN <<>>
    ELSE <<IF i = HyphenRound THEN "-" ELSE Chars[draws[i] + 1]>>
            \o BackupCodeFrom(draws, i + 1)

generateBackupCode(p) ==
    /\ Idle(p)
    /\ \E draws \in [DrawingRounds -> DrawnIndexes] :
          /\ loc' = [loc EXCEPT ![p] = [op |-> "generateBackupCode"]]
          /\ Finish(p, [op |-> "generateBackupCode",
                        code |-> BackupCodeFrom(draws, 0)])
    /\ UNCHANGED <<users, tokens, keys, nextId, now, ticks, issued, txn>>

NextBackupCode ==
    \/ generateBackupCode(1) /\ UNCHANGED <<attempts, sequelize>>
    \/ Return(1) /\ UNCHANGED <<attempts, sequelize>>

SpecBackupCode == Init /\ [][NextBackupCode]_vars

Alphabet == {Chars[i] : i \in 1..Len(Chars)}

(* C23: every code returned by generateBackupCode has exactly 11           *)
(* characters, a hyphen as the sixth, and a character of 0-9A-Z in each of  *)
(* the five places before it and the five places after it.                  *)
C23_BackupCodeFormat ==
    \A p \in Procs :
       (pc[p] = "done" /\ loc[p].op = "generateBackupCode") =>
          /\ Len(res[p].code) = 11
          /\ res[p].code[6] = "-"
          /\ \A i \in (1..11) \ {6} : res[p].code[i] \in Alphabet

----------------------------------------------------------------------------
(* verifyRequestSignature, the middleware in front of the login handler.    *)
(* A signature is named by the key that made it and the text it was made    *)
(* over; a timestamp text is a decimal number or not a number at all.       *)

TimeThreshold == 300         \* seconds

NoHeader == <<>>

Numeral(n) == [numeric |-> TRUE, value |-> n]
NotANumber == [numeric |-> FALSE, value |-> 0]

Signature(key, data) == [kind |-> "sig", key |-> key, data |-> data]

\* key.verify(Buffer.from(data), signature, "utf8", "base64")
verifySignature(data, signature, publicKey) ==
    /\ signature.kind = "sig"
    /\ signature.key = publicKey
    /\ signature.data = data

\* the keys a request body may have, in the order of Array.prototype.sort
KeyOrder == <<"password", "username">>

Has(body, k) == \E i \in 1..Len(body) : body[i][1] = k

RECURSIVE SortedFrom(_, _)
\* Object.keys(req.body).sort().reduce(...): the pairs in key order
SortedFrom(body, j) ==
    IF j > Len(KeyOrder) THEN <<>>
    ELSE (IF Has(body, KeyOrder[j])
            THEN <<body[CHOOSE i \in 1..Len(body) : body[i][1] = KeyOrder[j]]>>
            ELSE <<>>) \o SortedFrom(body, j + 1)

\* bodyStr: empty for an empty body, else JSON.stringify of the sorted body
BodyStr(body) == IF Len(body) = 0 THEN <<>> ELSE SortedFrom(body, 1)

\* `${timestamp}:${nonce}:${method}:${path}:${bodyStr}`
SignatureData(timestamp, nonce, method, path, body) ==
    <<timestamp, nonce, method, path, BodyStr(body)>>

\* currentTime - signatureTime > timeThreshold, false when parseInt gives NaN
SignatureExpired(currentTime, timestamp) ==
    /\ timestamp.numeric
    /\ currentTime - timestamp.value > TimeThreshold

Answer(next, verified, message) ==
    [op |-> "verifyRequestSignature", next |-> next,
     signatureVerified |-> verified, message |-> message]

(* req: consumer (set by authenticateApiKey), header (the parts of          *)
(* x-signature split at ":", none when the header is absent), method, path  *)
(* and body as received                                                     *)
verifyRequestSignature(p, req) ==
    /\ Idle(p)
    /\ loc' = [loc EXCEPT ![p] =
                  [op |-> "verifyRequestSignature", req |-> req, at |-> now]]
    /\ LET parts == req.header
           currentTime == now \div UnitsPerSecond
       IN  IF parts = NoHeader
             THEN Finish(p, Answer(TRUE, FALSE, "none"))
           ELSE IF Len(parts) # 3
             THEN Finish(p, Answer(FALSE, FALSE, "Format tanda tangan tidak valid"))
           ELSE IF SignatureExpired(currentTime, parts[2])
             THEN Finish(p, Answer(FALSE, FALSE, "Tanda tangan sudah kedaluwarsa"))
           ELSE IF ~verifySignature(
                       SignatureData(parts[2], parts[3], req.method, req.path,
                                     req.body),
                       parts[1], req.consumer)
             THEN Finish(p, Answer(FALSE, FALSE, "Tanda tangan tidak valid"))
           ELSE Finish(p, Answer(TRUE, TRUE, "none"))
    /\ UNCHANGED <<users, tokens, keys, nextId, now, ticks, issued, txn>>

\* the request bodies that are tried: none, a login, the same login with its
\* keys in the other order, a login with another password
Bodies ==
    {<<>>,
     <<<<"username", "alice">>, <<"password", "pw1">>>>,
     <<<<"password", "pw1">>, <<"username", "alice">>>>,
     <<<<"username", "alice">>, <<"password", "pw2">>>>}

\* timestamps around both edges of the window, and one that is not a number
Timestamps ==
    {Numeral(now \div UnitsPerSecond + d) :
        d \in {-(TimeThreshold + 1), -TimeThreshold, 0, TimeThreshold,
               TimeThreshold + 1}}
    \cup {NotANumber}

(* what the consumer signed: a login request, with its own key or with      *)
(* another consumer's                                                       *)
Signed(timestamp, key) ==
    Signature(key, SignatureData(timestamp, "n1", "POST", "/api/v1/auth/login",
                                 <<<<"username", "alice">>, <<"password", "pw1">>>>))

Headers3 ==
    {<<Signed(t, k), t, "n1">> : t \in Timestamps, k \in {"c1", "c2"}}

SignedRequests ==
    {[consumer |-> "c1", header |-> h, method |-> m, path |-> pa, body |-> b] :
       h \in {NoHeader} \cup {<<"garbage", Numeral(0)>>} \cup Headers3,
       m \in {"POST", "GET"},
       pa \in {"/api/v1/auth/login", "/api/v1/auth/verify"},
       b \in Bodies}

SignatureClockSteps == {1, (TimeThreshold + 1) * UnitsPerSecond}

NextSignature ==
    \/ \E req \in SignedRequests : verifyRequestSignature(1, req)
          /\ UNCHANGED <<attempts, sequelize>>
    \/ \E d \in SignatureClockSteps : Tick(d) /\ UNCHANGED <<attempts, sequelize>>
    \/ Return(1) /\ UNCHANGED <<attempts, sequelize>>

SpecSignature == Init /\ [][NextSignature]_vars

\* the middleware has answered a request that carried a three-part header
Answered(p) ==
    /\ pc[p] = "done" /\ loc[p].op = "verifyRequestSignature"
    /\ Len(loc[p].req.header) = 3

(* C27: a request whose header timestamp is a number is rejected as        *)
(* expired exactly when the timestamp is more than 300 seconds away from    *)
(* the time of the check, in the past or in the future.                     *)
C27_ExpiryWindowBothWays ==
    \A p \in Procs :
       (Answered(p) /\ loc[p].req.header[2].numeric) =>
          (res[p].message = "Tanda tangan sudah kedaluwarsa"
             <=> \/ loc[p].at \div UnitsPerSecond - loc[p].req.header[2].value
                      > TimeThreshold
                 \/ loc[p].req.header[2].value - loc[p].at \div UnitsPerSecond
                      > TimeThreshold)

----------------------------------------------------------------------------
(* Two logins side by side, for an account that exists and for a name that  *)
(* matches no user, so that their results can be compared.                  *)

\* the message authenticateUser returns with a failure code (ACCOUNT_LOCKED
\* comes with two messages, one per place, and is not listed)
AuthMessage(code) ==
    CASE code = "INVALID_CREDENTIALS" -> "Username and password are required"
      [] code = "INVALID_CONSUMER" -> "Invalid or inactive API consumer"
      [] code = "UNAUTHORIZED_IP" -> "Access from this IP address is not allowed"
      [] code = "INVALID_USER" -> "Invalid username or password"
      [] code = "INVALID_PASSWORD" -> "Invalid username or password"
      [] code = "CONFIGURATION_ERROR" ->
            "System configuration error: No active signing key"
      [] code = "SYSTEM_ERROR" -> "An internal system error occurred"

NextLoginPair ==
    \/ \E p \in Procs, u \in {"alice", "bob"}, pw \in Passwords :
          authenticateUser(p, "c1", "10.0.0.1", u, pw, "")
          /\ UNCHANGED <<attempts, sequelize>>
    \/ \E p \in Procs : AuthIncrement(p) /\ UNCHANGED <<attempts, sequelize>>
    \/ \E p \in Procs : AuthLock(p) /\ UNCHANGED <<attempts, sequelize>>
    \/ \E p \in Procs : AuthReset(p) /\ UNCHANGED <<attempts, sequelize>>
    \/ \E p \in Procs : AuthFindKey(p) /\ UNCHANGED <<attempts, sequelize>>
    \/ \E p \in Procs : AuthCreateToken(p) /\ UNCHANGED <<attempts, sequelize>>
    \/ \E p \in Procs : Return(p) /\ UNCHANGED <<attempts, sequelize>>

SpecLoginPair == Init /\ [][NextLoginPair]_vars

\* a finished login for a name that matched no user
UnknownUserLogin(p) ==
    /\ pc[p] = "done" /\ loc[p].op = "auth"
    /\ loc[p].username # "" /\ loc[p].password # ""
    /\ loc[p].pre = NoRow

\* a finished login with a wrong password for an unlocked user, which did
\* not reach the lock threshold
WrongPasswordLogin(p) ==
    /\ pc[p] = "done" /\ loc[p].op = "auth"
    /\ loc[p].pre # NoRow
    /\ ~AccountLocked(loc[p].pre)
    /\ ~verifyPassword(loc[p].password, loc[p].pre.password_hash)
    /\ ~MustLock(loc[p].inst)

(* C29: for the same consumer and address, a login with a username that    *)
(* matches no user and a login with a wrong password for an existing        *)
(* unlocked user (below the lock threshold) return the same result: the     *)
(* same success flag, the same code and the same message.                   *)
C29_UnknownUserLikeWrongPassword ==
    \A p, q \in Procs :
       (/\ UnknownUserLogin(p) /\ WrongPasswordLogin(q)
        /\ loc[p].consumer = loc[q].consumer /\ loc[p].ip = loc[q].ip)
       => /\ res[p].success = res[q].success
          /\ res[p].code = res[q].code
          /\ AuthMessage(res[p].code) = AuthMessage(res[q].code)

----------------------------------------------------------------------------
(* Revocation of all tokens of a user, with two users in the database: the  *)
(* first request slot issues and revokes, the second presents tokens.       *)

InitTwoUsers == Start([u \in {"alice", "bob"} |-> NewUser("pw1")])

NextRevokeAll ==
    \/ authenticateUser(1, "c1", "10.0.0.1", "alice", "pw1", "")
          /\ UNCHANGED <<attempts, sequelize>>
    \/ AuthReset(1) /\ UNCHANGED <<attempts, sequelize>>
    \/ AuthFindKey(1) /\ UNCHANGED <<attempts, sequelize>>
    \/ AuthCreateToken(1) /\ UNCHANGED <<attempts, sequelize>>
    \/ \E u \in {"alice", "bob"} : createToken(1, u, "c1")
          /\ UNCHANGED <<attempts, sequelize>>
    \/ CreateTokenInsert(1) /\ UNCHANGED <<attempts, sequelize>>
    \/ \E id \in TokenIds : revokeToken(1, id)
          /\ UNCHANGED <<attempts, sequelize>>
    \/ RevokeWrite(1) /\ UNCHANGED <<attempts, sequelize>>
    \/ \E u \in {"alice", "bob"} : revokeAllTokensForUser(1, u)
          /\ UNCHANGED <<attempts, sequelize>>
    \/ \E t \in issued : verifyToken(2, t, "c1")
          /\ UNCHANGED <<attempts, sequelize>>
    \/ \E t \in issued :
          validateTokenFromHeader(2, [scheme |-> "Bearer", value |-> t])
          /\ UNCHANGED <<attempts, sequelize>>
    \/ \E d \in ClockSteps : Tick(d) /\ UNCHANGED <<attempts, sequelize>>
    \/ \E p \in Procs : Return(p) /\ UNCHANGED <<attempts, sequelize>>

SpecRevokeAll == InitTwoUsers /\ [][NextRevokeAll]_vars

\* the rows a presented token validates against, through either validation
ValidatedRows(t) ==
    {VerifyOutcome(t, c)[2] : c \in {c \in ConsumerIds :
                                       VerifyOutcome(t, c)[1] = "SUCCESS"}}
    \cup (IF HeaderOutcome([scheme |-> "Bearer", value |-> t])[1] = "SUCCESS"
            THEN {HeaderOutcome([scheme |-> "Bearer", value |-> t])[2]}
            ELSE {})

----------------------------------------------------------------------------
(* Tokens of locked and deactivated users *)

\* the row a presented JWT names, if any
RowOf(token) ==
    IF IsJwt(token) THEN FindToken(token.token_id) ELSE {}

(* C31: in no reachable state does verifyToken accept a token whose user   *)
(* is locked or inactive: locking (after failed logins or by an             *)
(* administrative update) and deactivation revoke the user's tokens.        *)
C31_NoTokenOfLockedOrInactiveUser ==
    \A token \in issued, c \in ConsumerIds :
       VerifyOutcome(token, c)[1] = "SUCCESS" =>
          \A t \in RowOf(token) :
             /\ FindUser(t.user_id) # NoRow
             /\ FindUser(t.user_id).is_active
             /\ ~FindUser(t.user_id).is_locked

----------------------------------------------------------------------------
(* Dispatch of one-time codes.  sendSMS and sendEmail catch every error of  *)
(* the provider call and return { success: false }; the handlers await the  *)
(* call and do not look at what it returns.                                 *)

SendingOps ==
    {"setupSMSMFA", "setupEmailMFA", "generateAndSendSMSOTP",
     "generateAndSendEmailOTP"}

\* sendSMS / sendEmail: the provider call works or throws inside the try
sendNotification(works) == [success |-> works]

\* the handler's locals after the dispatch
AfterSend(l, delivery) ==
    [f \in DOMAIN l \cup {"delivery"} |->
        IF f = "delivery" THEN delivery ELSE l[f]]

(* the rest of a sending handler: user.update({ mfa_settings }), await      *)
(* sendSMS(...) or sendEmail(...), return the success result                *)
MfaWriteThenSend(p, works) ==
    /\ pc[p] = "mfa_write"
    /\ loc[p].op \in SendingOps
    /\ users' = [users EXCEPT ![loc[p].username].mfa_settings =
                     Saved(@, loc[p].draft, loc[p].fresh)]
    /\ loc' = [loc EXCEPT ![p] = AfterSend(@, sendNotification(works))]
    /\ Finish(p, loc[p].result)
    /\ UNCHANGED <<tokens, keys, nextId, now, ticks, issued, txn>>

NextDispatch ==
    \/ \E m \in OtpMethods : setupOtpMFA(1, "alice", m, TRUE)
          /\ UNCHANGED <<attempts, sequelize>>
    \/ \E m \in OtpMethods, c \in SentCodes : verifyAndEnableOtpMFA(1, "alice", m, c)
          /\ UNCHANGED <<attempts, sequelize>>
    \/ \E m \in OtpMethods : generateAndSendOTP(1, "alice", m)
          /\ UNCHANGED <<attempts, sequelize>>
    \/ \E m \in OtpMethods, c \in SentCodes : verifyOTP(1, "alice", m, c)
          /\ UNCHANGED <<attempts, sequelize>>
    \/ \E works \in BOOLEAN : MfaWriteThenSend(1, works)
          /\ UNCHANGED <<attempts, sequelize>>
    \/ (loc[1].op \notin SendingOps /\ MfaWrite(1))
          /\ UNCHANGED <<attempts, sequelize>>
    \/ (ticks = 0 /\ \E d \in SeqClockSteps : Tick(d))
          /\ UNCHANGED <<attempts, sequelize>>
    \/ Return(1) /\ UNCHANGED <<attempts, sequelize>>

SpecDispatch == InitEnrol /\ [][NextDispatch]_vars

(* C32: when the dispatch of a freshly generated SMS or email code fails,  *)
(* the generating call (generateAndSend*OTP or the SMS/email setup)         *)
(* reports a failure to its caller, and the code it stored stays stored.    *)
C32_DispatchFailureReported ==
    \A p \in Procs :
       (/\ pc[p] = "done"
        /\ loc[p].op \in SendingOps
        /\ "delivery" \in DOMAIN loc[p]
        /\ ~loc[p].delivery.success)
       => /\ ~res[p].success
          /\ sequelize = 5 =>
                users[loc[p].username].mfa_settings = loc[p].draft

----------------------------------------------------------------------------
(* The scheduled expiry check, one request at a time, while time passes.    *)

KeyCheckClockSteps == {1, WarningWindow, KeyValidity - WarningWindow}

NextKeyCheck ==
    \/ rotateProviderKey(1) /\ UNCHANGED <<attempts, sequelize>>
    \/ checkAndRotateExpiringKeys(1) /\ UNCHANGED <<attempts, sequelize>>
    \/ RotateBegin(1) /\ UNCHANGED <<attempts, sequelize>>
    \/ RotateUpdate(1) /\ UNCHANGED <<attempts, sequelize>>
    \/ RotateUpdateFinish(1) /\ UNCHANGED <<attempts, sequelize>>
    \/ RotateInsert(1) /\ UNCHANGED <<attempts, sequelize>>
    \/ RotateCommit(1) /\ UNCHANGED <<attempts, sequelize>>
    \/ RotateFail(1) /\ UNCHANGED <<attempts, sequelize>>
    \/ \E d \in KeyCheckClockSteps : Tick(d) /\ UNCHANGED <<attempts, sequelize>>
    \/ Return(1) /\ UNCHANGED <<attempts, sequelize>>

SpecKeyCheck == Init /\ [][NextKeyCheck]_vars

(* C33: checkAndRotateExpiringKeys starts a rotation when an active key's  *)
(* valid_until is less than 10 days ahead, and otherwise returns at once    *)
(* with rotated = 0 and every key unchanged; the key its rotation inserts   *)
(* is valid for 90 days; and when its last rotation commits, exactly one    *)
(* key is active, it is the new key, its version is above every earlier     *)
(* one, and every key that was active is inactive.                          *)
C33_ExpiringKeysAreRotated ==
    [][\A p \in Procs :
          /\ (/\ pc[p] = "idle" /\ pc'[p] # "idle"
              /\ loc'[p].op = "checkAndRotateExpiringKeys")
             => IF \E k \in ActiveKeys : k.valid_until < now + WarningWindow
                  THEN pc'[p] = "rot_begin"
                  ELSE /\ pc'[p] = "done"
                       /\ res'[p].success
                       /\ loc'[p].rotated = 0
                       /\ keys' = keys
          /\ (/\ pc[p] = "rot_insert" /\ pc'[p] = "rot_commit"
              /\ loc[p].op = "checkAndRotateExpiringKeys")
             => \A k \in txn'[p].inserted :
                   k.status = "active" /\ k.valid_until = now + KeyValidity
          /\ (/\ pc[p] = "rot_commit" /\ pc'[p] = "done"
              /\ loc[p].op = "checkAndRotateExpiringKeys"
              /\ loc'[p].rotated > loc[p].rotated)
             => /\ {k \in keys' : k.status = "active"} = txn[p].inserted
                /\ Cardinality(txn[p].inserted) = 1
                /\ \A k \in txn[p].inserted, j \in keys :
                      k.key_version > j.key_version
                /\ \A j \in ActiveKeys :
                      [j EXCEPT !.status = "inactive"] \in keys']_vars

(* C34: the key a rotation inserts has a key_version above that of every   *)
(* key existing at that moment, so in every reachable state, concurrent     *)
(* rotations included, no two provider keys share a key_version and a key   *)
(* created later has the higher version.                                    *)
C34_KeyVersionsUnique ==
    \A k, j \in keys :
       /\ k.key_version = j.key_version => k = j
       /\ k.id < j.id => k.key_version < j.key_version

----------------------------------------------------------------------------
(* Token.cleanupExpired / cleanupExpiredTokens *)

Day == 86400 * UnitsPerSecond

\* a cutoff on the wrong side of now
CutoffAhead(olderThanDays) == now + olderThanDays * Day

\* cutoffDate.setDate(cutoffDate.getDate() - olderThanDays)
CutoffDate(olderThanDays) == now - olderThanDays * Day

(* destroy where expires_at < cutoff OR (is_revoked AND revoked_at < cutoff) *)
CleanupTargets(olderThanDays) ==
    {t \in tokens :
        \/ t.expires_at < CutoffDate(olderThanDays)
        \/ t.is_revoked /\ t.revoked_at < CutoffDate(olderThanDays)}

cleanupExpiredTokens(p, olderThanDays) ==
    /\ Idle(p)
    /\ loc' = [loc EXCEPT ![p] =
           [op |-> "cleanupExpiredTokens", days |-> olderThanDays,
            count |-> Cardinality(CleanupTargets(olderThanDays))]]
    /\ tokens' = tokens \ CleanupTargets(olderThanDays)
    /\ Finish(p, TokenResult("cleanupExpiredTokens", TRUE, "SUCCESS", Null))
    /\ UNCHANGED <<users, keys, nextId, now, ticks, issued, txn>>

RetentionDays == {0, 1, 2}
CleanupClockSteps == {1, TokenLifetime, Day}

NextCleanup ==
    \/ authenticateUser(1, "c1", "10.0.0.1", "alice", "pw1", "")
          /\ UNCHANGED <<attempts, sequelize>>
    \/ AuthReset(1) /\ UNCHANGED <<attempts, sequelize>>
    \/ AuthFindKey(1) /\ UNCHANGED <<attempts, sequelize>>
    \/ AuthCreateToken(1) /\ UNCHANGED <<attempts, sequelize>>
    \/ createToken(1, "alice", "c1") /\ UNCHANGED <<attempts, sequelize>>
    \/ CreateTokenInsert(1) /\ UNCHANGED <<attempts, sequelize>>
    \/ \E id \in TokenIds : revokeToken(1, id)
          /\ UNCHANGED <<attempts, sequelize>>
    \/ RevokeWrite(1) /\ UNCHANGED <<attempts, sequelize>>
    \/ \E d \in RetentionDays : cleanupExpiredTokens(1, d)
          /\ UNCHANGED <<attempts, sequelize>>
    \/ \E d \in CleanupClockSteps : Tick(d) /\ UNCHANGED <<attempts, sequelize>>
    \/ Return(1) /\ UNCHANGED <<attempts, sequelize>>

SpecCleanup == Init /\ [][NextCleanup]_vars

----------------------------------------------------------------------------
(* Logins of users with a second factor *)

\* the login of request p read a user row with MFA enabled
SecondFactorLogin(l) ==
    /\ l.op = "auth"
    /\ l.pre # NoRow
    /\ l.pre.mfa_settings.enabled

(* C36: no step of a login for a user with MFA enabled creates a token     *)
(* record or hands out a token, and such a login never returns success,     *)
(* unless an MFA verifier accepted the code submitted with it (which no     *)
(* login reaches); the correct password alone yields no token.              *)
C36_NoTokenWithoutSecondFactor ==
    [][\A p \in Procs :
          SecondFactorLogin(loc'[p]) =>
             /\ tokens' = tokens
             /\ issued' = issued
             /\ pc'[p] = "done" =>
                   (~res'[p].success /\ res'[p].token = NoRow)]_vars

\* a login with the correct password for a user with MFA enabled was refused
C36_Witness ==
    \E p \in Procs :
       /\ pc[p] = "done"
       /\ SecondFactorLogin(loc[p])
       /\ verifyPassword(loc[p].password, loc[p].pre.password_hash)
       /\ ~res[p].success
       /\ tokens = {}

----------------------------------------------------------------------------
(* Revocations of the same tokens by requests that run at the same time     *)

NextRevokeRace ==
    \/ authenticateUser(1, "c1", "10.0.0.1", "alice", "pw1", "")
          /\ UNCHANGED <<attempts, sequelize>>
    \/ AuthReset(1) /\ UNCHANGED <<attempts, sequelize>>
    \/ AuthFindKey(1) /\ UNCHANGED <<attempts, sequelize>>
    \/ AuthCreateToken(1) /\ UNCHANGED <<attempts, sequelize>>
    \/ createToken(1, "alice", "c1") /\ UNCHANGED <<attempts, sequelize>>
    \/ CreateTokenInsert(1) /\ UNCHANGED <<attempts, sequelize>>
    \/ \E p \in Procs, id \in TokenIds : revokeToken(p, id)
          /\ UNCHANGED <<attempts, sequelize>>
    \/ \E p \in Procs : RevokeWrite(p) /\ UNCHANGED <<attempts, sequelize>>
    \/ \E p \in Procs : revokeAllTokensForUser(p, "alice")
          /\ UNCHANGED <<attempts, sequelize>>
    \/ \E d \in ClockSteps : Tick(d) /\ UNCHANGED <<attempts, sequelize>>
    \/ \E p \in Procs : Return(p) /\ UNCHANGED <<attempts, sequelize>>

SpecRevokeRace == Init /\ [][NextRevokeRace]_vars

(* C37: revocation is permanent: a token row that is revoked stays as it   *)
(* is, is_revoked and revoked_at included, through every step of every      *)
(* operation, and no presented token validates against a revoked row.       *)
C37_RevocationIsPermanent ==
    [][/\ \A t \in tokens : t.is_revoked => t \in tokens'
       /\ \A i \in issued : \A t \in tokens :
             t.id \in ValidatedRows(i) => ~t.is_revoked]_vars

----------------------------------------------------------------------------
(* Enrolment calls for a user whose MFA is already enabled *)

(* a database in which alice has asked for TOTP and for one of the sms and  *)
(* email methods and has confirmed neither (setupTOTP, then setupSMSMFA or  *)
(* setupEmailMFA, in a build whose updates of mfa_settings are saved)       *)
InitPending ==
    /\ \E m \in OtpMethods :
          Start([u \in {"alice"} |->
                   [NewUser("pw1") EXCEPT !.mfa_settings =
                       [NoMfa EXCEPT
                           !.totp = TotpSub(0),
                           ![m] = OtpSub(NumericCode(0), VerificationLifetime(m))]]])
    /\ sequelize = 5

SetupOps == {"setupTOTP", "setupSMSMFA", "setupEmailMFA"}

NextMfaSwitch ==
    \/ setupTOTP(1, "alice") /\ UNCHANGED <<attempts, sequelize>>
    \/ \E t \in TotpInputs("alice") : verifyAndEnableTOTP(1, "alice", t)
          /\ UNCHANGED <<attempts, sequelize>>
    \/ \E m \in OtpMethods : setupOtpMFA(1, "alice", m, TRUE)
          /\ UNCHANGED <<attempts, sequelize>>
    \/ \E m \in OtpMethods : \E c \in EnrolCodes(m) :
          verifyAndEnableOtpMFA(1, "alice", m, c)
          /\ UNCHANGED <<attempts, sequelize>>
    \/ \E pw \in Passwords : disableMFA(1, "alice", pw)
          /\ UNCHANGED <<attempts, sequelize>>
    \/ MfaWrite(1) /\ UNCHANGED <<attempts, sequelize>>
    \/ (ticks = 0 /\ \E d \in {1} : Tick(d)) /\ UNCHANGED <<attempts, sequelize>>
    \/ Return(1) /\ UNCHANGED <<attempts, sequelize>>

SpecMfaSwitch == (Init \/ InitPending) /\ [][NextMfaSwitch]_vars

(* C38: while a user's MFA is enabled, every setup call returns            *)
(* MFA_ALREADY_ENABLED and every verify-and-enable call is rejected, for    *)
(* the enabled method or another one, a code requested before MFA was       *)
(* enabled included; neither changes mfa_settings, so only disableMFA       *)
(* changes the enabled flag, the preferred method and its secret.           *)
C38_EnabledMfaOnlyChangedByDisable ==
    [][/\ \A p \in Procs :
            (/\ pc[p] = "idle" /\ pc'[p] # "idle"
             /\ loc'[p].op \in SetupOps \cup EnableOps
             /\ FindUser(loc'[p].username) # NoRow
             /\ FindUser(loc'[p].username).mfa_settings.enabled)
            => /\ pc'[p] = "done"
               /\ ~res'[p].success
               /\ loc'[p].op \in SetupOps => res'[p].code = "MFA_ALREADY_ENABLED"
               /\ users' = users
       /\ \A u \in DOMAIN users :
            (/\ users[u].mfa_settings.enabled
             /\ \/ ~users'[u].mfa_settings.enabled
                \/ users'[u].mfa_settings.preferred_method
                      # users[u].mfa_settings.preferred_method
                \/ users'[u].mfa_settings[users[u].mfa_settings.preferred_method]
                      # users[u].mfa_settings[users[u].mfa_settings.preferred_method])
            => \E p \in Procs : loc[p].op = "disableMFA"]_vars

----------------------------------------------------------------------------
(* Logins in which a statement fails.  Everything in authenticateUser runs  *)
(* in one try block without a transaction; whatever is thrown is answered   *)
(* with SYSTEM_ERROR.                                                       *)

AuthLabels == {"auth_incr", "auth_lock", "auth_reset", "auth_key", "auth_create"}

(* the statement request p is about to run throws: nothing is written     *)
(* (a failed lock leaves the counter above the threshold; the guard keeps   *)
(* it from growing without end)                                             *)
AuthThrow(p) ==
    /\ pc[p] \in AuthLabels
    /\ FindUser(loc[p].username).failed_attempts <= LockThreshold
    /\ loc' = loc
    /\ Finish(p, AuthFail(p, "SYSTEM_ERROR"))
    /\ UNCHANGED <<users, tokens, keys, nextId, now, ticks, issued, txn>>

(* TokenModel.create succeeds, the JWT is signed, and the query of         *)
(* UserModel.findWithRoles that follows throws: the row stays, the JWT is   *)
(* not returned                                                              *)
AuthRolesThrow(p) ==
    /\ pc[p] = "auth_create"
    /\ LET id == nextId.token
           tokenValue == generateRandomToken(id)
       IN  /\ tokens' = tokens \cup
                   {TokenRow(id, loc[p].username, loc[p].consumer,
                             hashData(tokenValue), loc[p].key, loc[p].expires_at)}
           /\ nextId' = [nextId EXCEPT !.token = id + 1]
    /\ loc' = loc
    /\ Finish(p, AuthFail(p, "SYSTEM_ERROR"))
    /\ UNCHANGED <<users, keys, now, ticks, issued, txn>>

NextLoginFail ==
    \/ \E o \in LoginOrigins, u \in LoginNames, pw \in LoginPasswords :
          authenticateUser(1, o[1], o[2], u, pw, "")
          /\ UNCHANGED <<attempts, sequelize>>
    \/ AuthIncrement(1) /\ UNCHANGED <<attempts, sequelize>>
    \/ AuthLock(1) /\ UNCHANGED <<attempts, sequelize>>
    \/ AuthReset(1) /\ UNCHANGED <<attempts, sequelize>>
    \/ AuthFindKey(1) /\ UNCHANGED <<attempts, sequelize>>
    \/ AuthCreateToken(1) /\ UNCHANGED <<attempts, sequelize>>
    \/ AuthThrow(1) /\ UNCHANGED <<attempts, sequelize>>
    \/ AuthRolesThrow(1) /\ UNCHANGED <<attempts, sequelize>>
    \/ \E id \in 1..MaxKeys : revokeProviderKey(1, id)
          /\ UNCHANGED <<attempts, sequelize>>
    \/ RevokeKeyWrite(1) /\ UNCHANGED <<attempts, sequelize>>
    \/ \E d \in ClockSteps : Tick(d) /\ UNCHANGED <<attempts, sequelize>>
    \/ Return(1) /\ UNCHANGED <<attempts, sequelize>>

SpecLoginFail == InitEnrol /\ [][NextLoginFail]_vars

(* C39: a login creates a token record if and only if it returns success:  *)
(* a step of a login that does not end it with success leaves the token     *)
(* records as they are, whatever code is returned, and the step that ends   *)
(* it with success adds exactly one record, for the authenticated user and  *)
(* the presenting consumer, unrevoked, expiring one hour after issuance.    *)
C39_TokenRecordIffSuccess ==
    [][\A p \in Procs :
          (loc'[p].op = "auth" /\ pc'[p] # pc[p]) =>
             /\ IF pc'[p] = "done" /\ res'[p].success
                  THEN \E t \in tokens' :
                          /\ t \notin tokens
                          /\ tokens' = tokens \cup {t}
                          /\ t.user_id = loc'[p].username
                          /\ t.consumer_id = loc'[p].consumer
                          /\ ~t.is_revoked
                          /\ t.expires_at = loc'[p].expires_at
                  ELSE tokens' = tokens
             /\ (pc[p] = "auth_key" /\ pc'[p] = "auth_create")
                  => loc'[p].expires_at = now + TokenLifetime]_vars

====
